---- MODULE Spec2Model ----
(***************************************************************************)
(* Model of the architecture checker (Diplow/subsystem-architecture).      *)
(*                                                                         *)
(* A state is a source tree (the manifests dependencies.json and the       *)
(* TypeScript files under src/) together with the position of one run of   *)
(* ArchitectureChecker.run_all_checks over it: the discovered subsystems,  *)
(* the outbound tasks still held by the worker pool, and the records       *)
(* collected in CheckResults.  The tree is read-only during a run.         *)
(*                                                                         *)
(* The run covers the declaration and redundancy checks on the manifests,  *)
(* the checks that examine import statements (the import boundary check,   *)
(* the outbound allow-list check on its worker pool, the router and        *)
(* domain-utils import patterns, the domain import restrictions, the app   *)
(* and page isolation checks), the re-export checks on the index files of  *)
(* subsystems and on standalone index files, and the exit status of main.  *)
(*                                                                         *)
(* A manifest may hold something else than a JSON object; the run then     *)
(* either reads it as an empty mapping or ends with the exception that     *)
(* nothing catches.                                                        *)
(*                                                                         *)
(* Four components are modelled on their own, each with its own next-state *)
(* relation: the threshold overrides of the complexity check               *)
(* (.architecture-exceptions), the Rule of 6 checker over one file with    *)
(* its overrides (.ruleof6-exceptions), the FileCache under concurrent     *)
(* pool threads, and CheckResults.add_error.                               *)
(*                                                                         *)
(* Strings are sequences of atoms.  "/" , "~" and "." are atoms of their   *)
(* own and a name is one atom or several ("xy" is <<"x","y">>), so that    *)
(* startswith, `in`, split and rstrip on the modelled strings agree with   *)
(* the Python operations on the strings they stand for.                    *)
(***************************************************************************)
EXTENDS Integers, Sequences, FiniteSets, TLC

VARIABLES
    manifest,      \* directory -> parsed dependencies.json (the manifests on disk)
    deps_content,  \* directory -> what its dependencies.json holds: an object or not
    raised,        \* the exception that ended the run, "" for none
    deps_files,    \* the manifests in the order rglob("dependencies.json") lists them
    ts_files,      \* the *.ts / *.tsx files in the order rglob lists them
    pc,            \* position of run_all_checks
    subsystems,    \* ArchitectureChecker.subsystems
    pending,       \* futures of check_single_subsystem not yet completed
    allowed_sets,  \* task -> the all_allowed set its check_single_subsystem built
    collected,     \* the errors list local to check_outbound_dependencies_parallel
    errors,        \* CheckResults.errors
    warnings,      \* CheckResults.warnings
    include_warnings,  \* args.include_warnings of main
    exit_code,     \* the status main exits with, -1 while it runs
    exception_files,   \* directory -> lines of its .architecture-exceptions file
    _exception_cache,  \* ExceptionHandler._exception_cache
    custom_threshold,  \* the last call of get_custom_threshold and what it returned
    ruleof6_files,     \* directory -> entries of its .ruleof6-exceptions file
    _file_exceptions,      \* RuleOf6ExceptionHandler._file_exceptions
    _function_exceptions,  \* RuleOf6ExceptionHandler._function_exceptions
    functions,         \* the functions the parser extracts from the checked file
    file_cache,        \* FileCache.file_cache
    dependency_cache,  \* FileCache.dependency_cache
    calls,             \* worker -> the call of the cache it is executing
    added              \* the records handed to CheckResults.add_error, in order

\* what a run of ArchitectureChecker.run_all_checks over the import rules
\* neither reads nor writes
cache_vars == <<file_cache, dependency_cache, calls, added>>

outside_run == <<exception_files, _exception_cache, custom_threshold, ruleof6_files,
                 _file_exceptions, _function_exceptions, functions, cache_vars>>

vars == <<manifest, deps_content, raised, deps_files, ts_files, pc, subsystems, pending, allowed_sets,
          collected, errors, warnings, include_warnings, exit_code, outside_run>>

----------------------------------------------------------------------------
(* Bounds of the model.                                                    *)

MaxSubsystems == 3     \* manifests in one tree
MaxDeclared == 2       \* entries declared over all manifests of one tree

----------------------------------------------------------------------------
(* Python str operations on atom sequences.                                *)

SLASH == "/"

StartsWith(s, p) == Len(p) <= Len(s) /\ SubSeq(s, 1, Len(p)) = p

EndsWith(s, p) == Len(p) <= Len(s) /\ SubSeq(s, Len(s) - Len(p) + 1, Len(s)) = p

\* p in s
Contains(s, p) == \E i \in 0..(Len(s) - Len(p)) : SubSeq(s, i + 1, i + Len(p)) = p

\* s[n:]
Drop(s, n) == SubSeq(s, n + 1, Len(s))

\* s.rstrip('/')
RECURSIVE RStripSlash(_)
RStripSlash(s) ==
    IF s # <<>> /\ s[Len(s)] = SLASH THEN RStripSlash(SubSeq(s, 1, Len(s) - 1)) ELSE s

\* s.count('/')
CountSlash(s) == Cardinality({i \in 1..Len(s) : s[i] = SLASH})

\* s.split('/')
RECURSIVE SplitFrom(_, _, _)
SplitFrom(s, i, cur) ==
    IF i > Len(s) THEN <<cur>>
    ELSE IF s[i] = SLASH THEN <<cur>> \o SplitFrom(s, i + 1, <<>>)
    ELSE SplitFrom(s, i + 1, Append(cur, s[i]))

Split(s) == SplitFrom(s, 1, <<>>)

INDEX_TS == <<"index", ".", "ts">>
INDEX_TSX == <<"index", ".", "ts", "x">>
DOTDOT_SLASH == <<".", ".", SLASH>>
DOT_SLASH == <<".", SLASH>>
TILDE_SLASH == <<"~", SLASH>>

\* '/'.join(parts)
RECURSIVE Join(_)
Join(parts) ==
    IF parts = <<>> THEN <<>>
    ELSE IF Len(parts) = 1 THEN parts[1]
    ELSE parts[1] \o <<SLASH>> \o Join(Tail(parts))

\* s.split(pat)[-1]: what follows the last of the occurrences of pat that a
\* left-to-right, non-overlapping scan finds
RECURSIVE AfterLast(_, _)
AfterLast(s, pat) ==
    IF ~Contains(s, pat) THEN s
    ELSE LET i == CHOOSE k \in 0..(Len(s) - Len(pat)) :
                      /\ SubSeq(s, k + 1, k + Len(pat)) = pat
                      /\ \A j \in 0..(k - 1) : SubSeq(s, j + 1, j + Len(pat)) # pat
         IN AfterLast(Drop(s, i + Len(pat)), pat)

----------------------------------------------------------------------------
(* pathlib.Path: a relative path is the sequence of its segments.          *)

SRC == << <<"src">> >>

\* Path(s): empty and "." segments are dropped, ".." segments are kept
PathOf(s) == SelectSeq(Split(s), LAMBDA seg : seg # <<>> /\ seg # <<".">>)

\* str(path)
PathStr(p) == IF p = <<>> THEN <<".">> ELSE Join(p)

\* path.parent
Parent(p) == IF p = <<>> THEN <<>> ELSE SubSeq(p, 1, Len(p) - 1)

\* path.name
Name(p) == IF p = <<>> THEN <<>> ELSE p[Len(p)]

\* f"~/{path.relative_to(Path('src'))}"
AbsPath(p) == <<"~", SLASH>> \o PathStr(Tail(p))

\* (dir / "dependencies.json").exists()
HasManifest(dir) == dir \in DOMAIN manifest

\* {}
EMPTY_DICT == [type |-> "", allowed |-> <<>>, allowedChildren |-> <<>>, subsystems |-> <<>>]

\* the exception that leaves _find_all_subsystems at the manifest of dir, ""
\* for none: json.load raises UnicodeDecodeError on bytes that are not UTF-8,
\* which "except (json.JSONDecodeError, OSError)" does not name, and a value
\* that is no object (a list, a string, a number, null) is returned as it is
\* and has no attribute 'get'
RaisedAt(dir) ==
    IF deps_content[dir] = "undecodable" THEN "UnicodeDecodeError"
    ELSE IF deps_content[dir] = "not_object" THEN "AttributeError"
    ELSE ""

\* FileCache.load_dependencies_json(dir / "dependencies.json") where it
\* yields a mapping: the parsed object, or {} on JSONDecodeError and OSError
load_dependencies_json(dir) ==
    IF deps_content[dir] \in {"invalid_json", "unreadable"} THEN EMPTY_DICT ELSE manifest[dir]

----------------------------------------------------------------------------
(* The source tree.                                                        *)

\* a statement of a file: import { a } from 'p' | export { a } from 'p' |
\* export type { a } from 'p' | export * from 'p' | await import('p')
Stmt(kind, path) == [kind |-> kind, path |-> path]

Range(s) == {s[i] : i \in 1..Len(s)}

\* every directory of the tree: src and the directories on the way to a
\* manifest or to a file
ExistingDirs ==
    LET leaves == DOMAIN manifest \cup {Parent(f.path) : f \in Range(ts_files)}
    IN {SRC} \cup UNION {{SubSeq(l, 1, n) : n \in 1..Len(l)} : l \in leaves}

\* the match of r'from\s+["\']([^"\']+)["\']' in one statement
HasFromClause(stmt) ==
    /\ stmt.kind \in {"import_from", "export_from", "export_type_from", "export_star_from"}
    /\ stmt.path # <<>>

RECURSIVE extract_import_paths(_)
extract_import_paths(content) ==
    IF content = <<>> THEN <<>>
    ELSE (IF HasFromClause(Head(content)) THEN <<Head(content).path>> ELSE <<>>)
         \o extract_import_paths(Tail(content))

\* the FileInfo of a file whose read failed
UnreadFileInfo(f) == [path |-> f.path, content |-> <<>>, imports |-> <<>>]

\* FileCache.get_file_info: the FileInfo of a file of the tree
get_file_info(f) ==
    [path |-> f.path, content |-> f.content, imports |-> extract_import_paths(f.content)]

is_test_file(path) ==
    \/ Contains(Name(path), <<".", "test", ".">>)
    \/ Contains(Name(path), <<".", "spec", ".">>)
    \/ Contains(PathStr(path), <<SLASH, "__tests__", SLASH>>)

\* find_typescript_files(target_path): rglob under src, test files left out
find_typescript_files == SelectSeq(ts_files, LAMBDA f : ~is_test_file(f.path))

is_domain_path(path) ==
    StartsWith(PathStr(path), <<"src", SLASH, "lib", SLASH, "domains", SLASH>>)

\* a collection that does not stop at nested subsystems
AllFilesBeneath(dir) ==
    {f.path : f \in {g \in Range(ts_files) :
                        /\ Len(g.path) > Len(dir)
                        /\ SubSeq(g.path, 1, Len(dir)) = dir
                        /\ ~is_test_file(g.path)}}

\* the paths of the files _find_subsystem_files(subsystem_dir) collects
RECURSIVE SubsystemFilePaths(_)
SubsystemFilePaths(dir) ==
    {f.path : f \in {g \in Range(ts_files) : Parent(g.path) = dir /\ ~is_test_file(g.path)}}
    \cup UNION {SubsystemFilePaths(d) :
                  d \in {e \in ExistingDirs : Parent(e) = dir /\ e # dir /\ ~HasManifest(e)}}

_find_subsystem_files(dir) ==
    LET own == SubsystemFilePaths(dir)
        kept == SelectSeq(ts_files, LAMBDA f : f.path \in own)
    IN [i \in 1..Len(kept) |-> get_file_info(kept[i])]

\* the SubsystemInfo built for one manifest
SubsystemInfo(dir) ==
    LET dependencies == load_dependencies_json(dir)
    IN [path |-> dir,
        name |-> Name(dir),
        dependencies |-> dependencies,
        files |-> _find_subsystem_files(dir),
        parent_path |-> Parent(dir),
        subsystem_type |->
            IF dependencies.type = "" /\ is_domain_path(dir) THEN "domain"
            ELSE dependencies.type]

_find_all_subsystems == [i \in 1..Len(deps_files) |-> SubsystemInfo(deps_files[i])]

----------------------------------------------------------------------------
(* Records of CheckResults.                                                *)

NONE == << <<"None">> >>

ArchError(error_type, severity, subsystem, file_path, line_number, recommendation_type, import) ==
    [error_type |-> error_type, severity |-> severity, subsystem |-> subsystem,
     file_path |-> file_path, line_number |-> line_number,
     recommendation_type |-> recommendation_type, import |-> import]

\* a set as a list, in a fixed order
RECURSIVE SetToSeq(_)
SetToSeq(set) ==
    IF set = {} THEN <<>>
    ELSE LET e == CHOOSE m \in set : TRUE IN <<e>> \o SetToSeq(set \ {e})

RECURSIVE ConcatAll(_)
ConcatAll(lists) == IF lists = <<>> THEN <<>> ELSE Head(lists) \o ConcatAll(Tail(lists))

\* CheckResults.add_error, for each record of a list in turn
AddedErrors(list) == SelectSeq(list, LAMBDA e : e.severity = "error")
AddedWarnings(list) == SelectSeq(list, LAMBDA e : e.severity # "error")

----------------------------------------------------------------------------
(* Permission resolver (utils/import_utils.py).                            *)

LIB_DOMAINS == <<"~", SLASH, "lib", SLASH, "domains", SLASH>>

\* a resolver that looks at the parent directory only
ParentOnlyChain(subsystem) ==
    LET parent == Parent(subsystem.path)
    IN IF parent # SRC /\ HasManifest(parent)
       THEN <<AbsPath(parent)>> \o load_dependencies_json(parent).allowedChildren
       ELSE <<>>

\* a walk that ends at the first manifest it meets
RECURSIVE NearestOnlyWalk(_)
NearestOnlyWalk(current_dir) ==
    IF current_dir = SRC \/ current_dir = <<>> THEN <<>>
    ELSE IF HasManifest(current_dir)
         THEN <<AbsPath(current_dir)>> \o load_dependencies_json(current_dir).allowedChildren
         ELSE NearestOnlyWalk(Parent(current_dir))

\* an allow-list that leaves the inherited entries out
OwnDeclarationsOnly(subsystem) ==
    Range(subsystem.dependencies.allowed)
    \cup Range(subsystem.dependencies.allowedChildren)
    \cup (IF is_domain_path(subsystem.path) THEN {<<"_objects">>} ELSE {})

\* the loop of resolve_inheritance_chain, from current_dir upward
RECURSIVE InheritanceWalk(_)
InheritanceWalk(current_dir) ==
    IF current_dir = SRC \/ current_dir = <<>> THEN <<>>
    ELSE (IF HasManifest(current_dir)
          THEN <<AbsPath(current_dir)>> \o load_dependencies_json(current_dir).allowedChildren
          ELSE <<>>)
         \o InheritanceWalk(Parent(current_dir))

resolve_inheritance_chain(subsystem) == InheritanceWalk(Parent(subsystem.path))

is_same_domain_hierarchical_import(import_path, subsystem_path) ==
    LET import_parts == Split(import_path)
        subsystem_str == PathStr(subsystem_path)
        marker == <<SLASH, "lib", SLASH, "domains", SLASH>>
    IN /\ StartsWith(import_path, LIB_DOMAINS)
       /\ Len(import_parts) >= 4
       /\ Contains(subsystem_str, marker)
       /\ import_parts[4] = Split(AfterLast(subsystem_str, marker))[1]

\* a check that finds no import reaching into a subsystem
NeverGoesInto(import_path) == FALSE

\* the loop of import_goes_into_subsystem, from current upward
RECURSIVE GoesIntoWalk(_, _)
GoesIntoWalk(import_path, current) ==
    IF current = SRC \/ current = <<>> THEN FALSE
    ELSE IF HasManifest(current)
         THEN StartsWith(import_path, AbsPath(current) \o <<SLASH>>)
              /\ import_path # AbsPath(current)
         ELSE GoesIntoWalk(import_path, Parent(current))

import_goes_into_subsystem(import_path) ==
    /\ StartsWith(import_path, <<"~", SLASH>>)
    /\ GoesIntoWalk(import_path, SRC \o PathOf(Drop(import_path, 2)))

\* re.match(r"~/lib/domains/[^/]+/utils(?:/.*)?$", path)
MatchesUtilsPattern(path) ==
    LET parts == Split(path)
    IN /\ StartsWith(path, LIB_DOMAINS)
       /\ Len(parts) >= 5
       /\ parts[4] # <<>>
       /\ parts[5] = <<"utils">>

\* one pass of the loop over allowed_set: TRUE when allowed_dep lets the import through
AllowedByEntry(import_path, allowed_dep, subsystem_path, subsystem_abs_path) ==
    LET allowed_dep_normalized == RStripSlash(allowed_dep)
        ends_with_slash == EndsWith(allowed_dep, <<SLASH>>)
        prefix == IF ends_with_slash THEN allowed_dep ELSE allowed_dep_normalized \o <<SLASH>>
        child_path == Drop(import_path, Len(prefix))
        potential_subsystem_path ==
            IF StartsWith(allowed_dep_normalized, <<"~", SLASH>>)
            THEN SRC \o PathOf(Drop(allowed_dep_normalized, 2)) \o PathOf(child_path)
            ELSE PathOf(allowed_dep_normalized) \o PathOf(child_path)
        blocked_by_interface ==
            /\ import_goes_into_subsystem(import_path)
            /\ ~StartsWith(import_path, subsystem_abs_path \o <<SLASH>>)
            /\ ~(/\ StartsWith(import_path, allowed_dep_normalized \o <<SLASH>>)
                 /\ StartsWith(subsystem_abs_path, allowed_dep_normalized \o <<SLASH>>))
            /\ ~is_same_domain_hierarchical_import(import_path, subsystem_path)
        blocked_as_grandchild ==
            /\ HasManifest(potential_subsystem_path)
            /\ CountSlash(child_path) > 0
    IN /\ allowed_dep # <<>>
       /\ \/ import_path = allowed_dep
          \/ /\ \/ StartsWith(import_path, allowed_dep_normalized \o <<SLASH>>)
                \/ (ends_with_slash /\ StartsWith(import_path, allowed_dep))
             /\ \/ child_path = <<>>
                \/ (~blocked_by_interface /\ ~blocked_as_grandchild)

is_import_allowed_by_set(import_path, allowed_set, subsystem_path) ==
    LET subsystem_abs_path == IF subsystem_path = SRC THEN <<"~">> ELSE AbsPath(subsystem_path)
    IN \/ StartsWith(import_path, subsystem_abs_path \o <<SLASH>>)
       \/ import_path = subsystem_abs_path
       \/ /\ Contains(import_path, <<SLASH, "lib", SLASH, "domains", SLASH>>)
          /\ Contains(import_path, <<SLASH, "utils">>)
          /\ MatchesUtilsPattern(import_path)
       \/ \E allowed_dep \in allowed_set :
              AllowedByEntry(import_path, allowed_dep, subsystem_path, subsystem_abs_path)

\* all_allowed of check_single_subsystem
all_allowed(subsystem) ==
    Range(subsystem.dependencies.allowed)
    \cup Range(subsystem.dependencies.allowedChildren)
    \cup Range(resolve_inheritance_chain(subsystem))
    \cup (IF is_domain_path(subsystem.path) THEN {<<"_objects">>} ELSE {})

\* a filter that lets every import reach the allow-list
CheckedAlways(import_path) == TRUE

\* the imports of one file that check_single_subsystem lets reach the allow-list
IsCheckedOutbound(import_path) ==
    /\ StartsWith(import_path, <<"~", SLASH>>) \/ StartsWith(import_path, <<".", ".", SLASH>>)
    /\ ~StartsWith(import_path, <<".", ".", SLASH>>)

check_single_subsystem(subsystem) ==
    LET allowed == all_allowed(subsystem)
        OfImport(file_info, import_path) ==
            IF IsCheckedOutbound(import_path)
               /\ ~is_import_allowed_by_set(import_path, allowed, subsystem.path)
            THEN <<ArchError("import_boundary", "error", subsystem.path, file_info.path, 0,
                             "ADD_ALLOWED_DEPENDENCY", import_path)>>
            ELSE <<>>
        OfFile(file_info) ==
            ConcatAll([j \in 1..Len(file_info.imports) |-> OfImport(file_info, file_info.imports[j])])
    IN ConcatAll([i \in 1..Len(subsystem.files) |-> OfFile(subsystem.files[i])])

----------------------------------------------------------------------------
(* Import boundary check (rules/import_rules.py).                          *)

\* a permission test without the domain-utils clause
SameDomainPermissionOnly(file_path, import_path) ==
    LET import_parts == Split(import_path)
    IN /\ StartsWith(import_path, LIB_DOMAINS)
       /\ Len(import_parts) >= 4
       /\ Contains(PathStr(file_path),
                   <<SLASH, "lib", SLASH, "domains", SLASH>> \o import_parts[4] \o <<SLASH>>)

_file_has_import_permission(file_path, import_path) ==
    LET import_parts == Split(import_path)
        file_str == PathStr(file_path)
    IN /\ StartsWith(import_path, LIB_DOMAINS)
       /\ Len(import_parts) >= 4
       /\ \/ Contains(file_str, <<SLASH, "lib", SLASH, "domains", SLASH>> \o import_parts[4] \o <<SLASH>>)
          \/ (Len(import_parts) >= 5 /\ import_parts[5] = <<"utils">>)

\* is_child_of_subsystem(ts_file, subsystem, {}): the cache handed over is empty
is_child_of_subsystem(file_path, parent_subsystem, subsystem_cache) ==
    \E child_subsystem \in subsystem_cache :
        /\ child_subsystem.parent_path = parent_subsystem.path
        /\ Contains(PathStr(file_path), PathStr(child_subsystem.path))

\* whether the scan of _find_import_boundary_violations looks into ts_file at all
IsExternalImporter(subsystem, f) ==
    /\ Name(f.path) # <<"index", ".", "ts">>
    /\ ~Contains(PathStr(f.path), PathStr(subsystem.path))
    /\ ~is_child_of_subsystem(f.path, subsystem, {})
    /\ f.content # <<>>

_find_import_boundary_violations(subsystem) ==
    LET subsystem_abs_path == AbsPath(subsystem.path)
        Bypasses(f, stmt) ==
            /\ HasFromClause(stmt)
            /\ StartsWith(stmt.path, subsystem_abs_path \o <<SLASH>>)
            /\ LET sub_path == Drop(stmt.path, Len(subsystem_abs_path) + 1)
               IN sub_path # <<>> /\ sub_path # <<"index">>
            /\ ~_file_has_import_permission(f.path, stmt.path)
        OfFile(f) ==
            IF IsExternalImporter(subsystem, f)
            THEN ConcatAll([k \in 1..Len(f.content) |->
                     IF Bypasses(f, f.content[k])
                     THEN <<[file |-> f.path, line |-> k, import |-> f.content[k].path]>>
                     ELSE <<>>])
            ELSE <<>>
        files == find_typescript_files
    IN IF subsystem.subsystem_type \in {"router", "api"} THEN <<>>
       ELSE ConcatAll([i \in 1..Len(files) |-> OfFile(files[i])])

check_import_boundaries(subs) ==
    LET OfSubsystem(subsystem) ==
            LET violations == _find_import_boundary_violations(subsystem)
            IN IF violations = <<>> THEN <<>>
               ELSE <<ArchError("import_boundary", "error", subsystem.path, NONE, 0,
                                "CREATE_SUBSYSTEM_INDEX", <<>>)>>
                    \o [k \in 1..Len(violations) |->
                          ArchError("import_boundary", "error", subsystem.path,
                                    violations[k].file, violations[k].line,
                                    "USE_SUBSYSTEM_INTERFACE", violations[k].import)]
    IN ConcatAll([i \in 1..Len(subs) |-> OfSubsystem(subs[i])])

check_router_import_patterns(subs) ==
    LET router_subsystems ==
            {AbsPath(subs[i].path) : i \in {j \in 1..Len(subs) : subs[j].subsystem_type = "router"}}
        OfImport(subsystem, file_info, import_path) ==
            IF import_path \in router_subsystems
            THEN <<ArchError("import_boundary", "warning", subsystem.path, file_info.path, 0,
                             "USE_SPECIFIC_CHILD", import_path)>>
            ELSE <<>>
        OfFile(subsystem, file_info) ==
            ConcatAll([j \in 1..Len(file_info.imports) |->
                          OfImport(subsystem, file_info, file_info.imports[j])])
        OfSubsystem(subsystem) ==
            ConcatAll([i \in 1..Len(subsystem.files) |-> OfFile(subsystem, subsystem.files[i])])
    IN ConcatAll([i \in 1..Len(subs) |-> OfSubsystem(subs[i])])

\* re.match(r"~/lib/domains/[^/]+/utils/[^/]+$", path)
MatchesSpecificUtilsPattern(path) ==
    LET parts == Split(path)
    IN /\ StartsWith(path, LIB_DOMAINS)
       /\ Len(parts) = 6
       /\ parts[4] # <<>>
       /\ parts[5] = <<"utils">>
       /\ parts[6] # <<>>

\* file_path.parts.index("domains")
FirstDomainsIndex(parts) == CHOOSE i \in 1..Len(parts) :
    parts[i] = <<"domains">> /\ \A j \in 1..(i - 1) : parts[j] # <<"domains">>

check_domain_utils_import_patterns(subs) ==
    LET IsOwnUtilsIndex(file_path, import_path) ==
            /\ Name(file_path) = <<"index", ".", "ts">>
            /\ Name(Parent(file_path)) = <<"utils">>
            /\ <<"domains">> \in Range(file_path)
            /\ FirstDomainsIndex(file_path) + 1 <= Len(file_path)
            /\ file_path[FirstDomainsIndex(file_path) + 1] = Split(import_path)[4]
        OfImport(subsystem, file_info, import_path) ==
            IF /\ MatchesSpecificUtilsPattern(import_path)
               /\ ~EndsWith(import_path, <<SLASH, "index">>)
               /\ ~IsOwnUtilsIndex(file_info.path, import_path)
            THEN <<ArchError("import_boundary", "error", subsystem.path, file_info.path, 0,
                             "USE_UTILS_INTERFACE", import_path)>>
            ELSE <<>>
        OfFile(subsystem, file_info) ==
            ConcatAll([j \in 1..Len(file_info.imports) |->
                          OfImport(subsystem, file_info, file_info.imports[j])])
        OfSubsystem(subsystem) ==
            ConcatAll([i \in 1..Len(subsystem.files) |-> OfFile(subsystem, subsystem.files[i])])
    IN ConcatAll([i \in 1..Len(subs) |-> OfSubsystem(subs[i])])

----------------------------------------------------------------------------
(* Subsystem declarations and redundancy (rules/subsystem_rules.py).       *)

check_subsystem_declarations(subs) ==
    LET OfSubsystem(subsystem) ==
            LET parent_dir == subsystem.parent_path
                relative_path == DOT_SLASH \o subsystem.name
            IN IF parent_dir = SRC \/ parent_dir = <<>> THEN <<>>
               ELSE IF /\ HasManifest(parent_dir)
                       /\ relative_path \notin Range(load_dependencies_json(parent_dir).subsystems)
               THEN <<ArchError("subsystem_structure", "error", subsystem.path, NONE, 0,
                                "ADD_ALLOWED_CHILDREN", relative_path)>>
               ELSE <<>>
    IN ConcatAll([i \in 1..Len(subs) |-> OfSubsystem(subs[i])])

Redundant(subsystem, dep) ==
    ArchError("redundancy", "error", subsystem.path, NONE, 0,
              "REMOVE_REDUNDANT_DEPENDENCY", dep)

\* _check_hierarchical_redundancy_in_list
HierarchicalRedundancyInList(subsystem, dep_list) ==
    LET potential_subsystem_path(other_dep, dep) ==
            (IF StartsWith(other_dep, TILDE_SLASH)
             THEN SRC \o PathOf(Drop(other_dep, 2))
             ELSE PathOf(other_dep))
            \o PathOf(Drop(dep, Len(other_dep) + 1))
        OfPair(i, j) ==
            IF /\ i # j
               /\ dep_list[i] # dep_list[j]
               /\ StartsWith(dep_list[i], dep_list[j] \o <<SLASH>>)
               /\ ~HasManifest(potential_subsystem_path(dep_list[j], dep_list[i]))
            THEN <<Redundant(subsystem, dep_list[i])>>
            ELSE <<>>
    IN ConcatAll([i \in 1..Len(dep_list) |->
           ConcatAll([j \in 1..Len(dep_list) |-> OfPair(i, j)])])

check_hierarchical_redundancy(subs) ==
    ConcatAll([i \in 1..Len(subs) |->
        HierarchicalRedundancyInList(subs[i], subs[i].dependencies.allowed)
        \o HierarchicalRedundancyInList(subs[i], subs[i].dependencies.allowedChildren)])

\* the allowedChildren a subsystem's entries are compared with
ParentAllowedChildren(subsystem) ==
    LET parent_dir == subsystem.parent_path
    IN IF parent_dir = <<>> \/ parent_dir = SRC \/ ~HasManifest(parent_dir) THEN <<>>
       ELSE load_dependencies_json(parent_dir).allowedChildren

check_redundant_dependencies(subs) ==
    LET OfList(subsystem, deps) ==
            LET parent_allowed_children == ParentAllowedChildren(subsystem)
            IN ConcatAll([k \in 1..Len(deps) |->
                   IF deps[k] \in Range(parent_allowed_children)
                   THEN <<Redundant(subsystem, deps[k])>>
                   ELSE <<>>])
    IN ConcatAll([i \in 1..Len(subs) |->
           OfList(subs[i], subs[i].dependencies.allowed)
           \o OfList(subs[i], subs[i].dependencies.allowedChildren)])

\* the loop of get_ancestor_subsystems, from current_dir upward
RECURSIVE AncestorWalk(_)
AncestorWalk(current_dir) ==
    IF current_dir = SRC \/ current_dir = <<>> THEN <<>>
    ELSE (IF HasManifest(current_dir) THEN <<AbsPath(current_dir)>> ELSE <<>>)
         \o AncestorWalk(Parent(current_dir))

get_ancestor_subsystems(subsystem) == AncestorWalk(Parent(subsystem.path))

find_redundant_ancestor_declarations(subsystem) ==
    LET ancestor_paths == get_ancestor_subsystems(subsystem)
    IN SelectSeq(subsystem.dependencies.allowed, LAMBDA dep : dep \in Range(ancestor_paths))

check_ancestor_redundancy(subs) ==
    LET OfSubsystem(subsystem) ==
            LET redundant_ancestors == find_redundant_ancestor_declarations(subsystem)
            IN [k \in 1..Len(redundant_ancestors) |->
                   Redundant(subsystem, redundant_ancestors[k])]
    IN ConcatAll([i \in 1..Len(subs) |-> OfSubsystem(subs[i])])

check_domain_utils_redundancy(subs) ==
    LET OfSubsystem(subsystem) ==
            LET utils == SelectSeq(subsystem.dependencies.allowed, MatchesUtilsPattern)
            IN [k \in 1..Len(utils) |-> Redundant(subsystem, utils[k])]
    IN ConcatAll([i \in 1..Len(subs) |-> OfSubsystem(subs[i])])

----------------------------------------------------------------------------
(* Re-exports of index files (rules/import_rules.py).                      *)

\* path.exists() for a file of the tree
Exists(path) == \E f \in Range(ts_files) : f.path = path

\* subsystem.path / f"{child_name}{suffix}"
ChildFile(dir, child_name, suffix) == dir \o PathOf(child_name \o suffix)

ContentOf(path) == (CHOOSE f \in Range(ts_files) : f.path = path).content

_is_upward_reexport(subsystem, import_path) ==
    LET path_parts == Tail(subsystem.path)
        subsystem_abs_path == AbsPath(subsystem.path)
        domain_prefix == TILDE_SLASH \o Join(<<<<"lib">>, <<"domains">>, path_parts[3]>>)
        import_parts == Split(import_path)
        subsystem_parts == Split(subsystem_abs_path)
        shorter == IF Len(import_parts) <= Len(subsystem_parts)
                   THEN Len(import_parts) ELSE Len(subsystem_parts)
        common_length ==
            Cardinality({n \in 1..shorter :
                            \A m \in 1..n : import_parts[m] = subsystem_parts[m]})
    IN IF /\ Len(path_parts) >= 4
          /\ path_parts[1] = <<"lib">>
          /\ path_parts[2] = <<"domains">>
          /\ path_parts[4] = <<"utils">>
          /\ StartsWith(import_path, domain_prefix)
          /\ ~StartsWith(import_path, subsystem_abs_path \o <<SLASH>>)
       THEN FALSE
       ELSE IF StartsWith(import_path, DOTDOT_SLASH) THEN TRUE
       ELSE IF StartsWith(import_path, TILDE_SLASH)
       THEN IF import_path = subsystem_abs_path THEN FALSE
            ELSE IF StartsWith(import_path, subsystem_abs_path \o <<SLASH>>) THEN FALSE
            ELSE /\ Len(import_parts) <= Len(subsystem_parts)
                 /\ common_length > 0
                 /\ common_length >= 2
       ELSE FALSE

NeverDomainIndex(subsystem) == FALSE

_is_domain_index(subsystem) ==
    LET path_parts == subsystem.path
        n == Len(path_parts)
    IN /\ n >= 4
       /\ path_parts[n - 2] = <<"lib">>
       /\ path_parts[n - 1] = <<"domains">>
       /\ Exists(Append(subsystem.path, INDEX_TS))

_is_domain_utils(subsystem) ==
    LET path_parts == subsystem.path
    IN /\ Len(path_parts) >= 5
       /\ path_parts[1] = <<"src">>
       /\ path_parts[2] = <<"lib">>
       /\ path_parts[3] = <<"domains">>
       /\ path_parts[5] = <<"utils">>

_is_internal_file_reexport(subsystem, child_name) ==
    \/ Exists(ChildFile(subsystem.path, child_name, <<".", "ts">>))
    \/ Exists(ChildFile(subsystem.path, child_name, <<".", "ts", "x">>))
    \/ Exists(ChildFile(subsystem.path, child_name, <<SLASH>> \o INDEX_TS))
    \/ Exists(ChildFile(subsystem.path, child_name, <<SLASH>> \o INDEX_TSX))

\* the violation of one re-export statement as a list: empty where the
\* function returns None
_check_reexport_violation(subsystem, import_path, line_num) ==
    LET Violation(reason) == <<[line |-> line_num, import |-> import_path, reason |-> reason]>>
        subsystem_abs_path == AbsPath(subsystem.path)
        utils_path == subsystem_abs_path \o <<SLASH, "utils">>
        path_parts == Tail(subsystem.path)
        domain_prefix == TILDE_SLASH \o Join(<<<<"lib">>, <<"domains">>, path_parts[3]>>)
        child_name == Drop(import_path, 2)
    IN IF _is_upward_reexport(subsystem, import_path)
       THEN Violation("upward")
       ELSE IF /\ _is_domain_index(subsystem)
               /\ \/ import_path = <<".", SLASH, "utils">>
                  \/ StartsWith(import_path, <<".", SLASH, "utils", SLASH>>)
                  \/ import_path = utils_path
                  \/ StartsWith(import_path, utils_path \o <<SLASH>>)
       THEN Violation("domain index")
       ELSE IF /\ _is_domain_utils(subsystem)
               /\ Len(path_parts) >= 4
               /\ path_parts[1] = <<"lib">>
               /\ path_parts[2] = <<"domains">>
               /\ \/ StartsWith(import_path, domain_prefix)
                  \/ StartsWith(import_path, DOTDOT_SLASH)
       THEN <<>>
       ELSE IF StartsWith(import_path, DOT_SLASH)
       THEN IF (DOT_SLASH \o child_name) \in Range(subsystem.dependencies.subsystems)
            THEN <<>>
            ELSE IF _is_internal_file_reexport(subsystem, child_name) THEN <<>>
            ELSE <<>>    \* the branch ends without a return statement
       ELSE IF StartsWith(import_path, DOTDOT_SLASH)
       THEN Violation("external")
       ELSE IF StartsWith(import_path, TILDE_SLASH)
       THEN IF StartsWith(import_path, subsystem_abs_path \o <<SLASH>>) THEN <<>>
            ELSE Violation("external")
       ELSE IF ~StartsWith(import_path, <<".">>) /\ ~StartsWith(import_path, <<"~">>)
       THEN <<>>
       ELSE Violation("invalid")

\* the three patterns of re-export statements, in the order they are scanned
REEXPORT_PATTERNS == <<"export_from", "export_type_from", "export_star_from">>

\* the re-export statements of a file as (line, path), pattern by pattern
ReexportMatches(content) ==
    ConcatAll([p \in 1..Len(REEXPORT_PATTERNS) |->
        ConcatAll([k \in 1..Len(content) |->
            IF content[k].kind = REEXPORT_PATTERNS[p] /\ content[k].path # <<>>
            THEN <<[line |-> k, path |-> content[k].path]>>
            ELSE <<>>])])

\* the index file _find_reexport_violations reads
SubsystemIndexFile(subsystem) == Append(subsystem.path, INDEX_TS)

_find_reexport_violations(subsystem) ==
    LET index_file == SubsystemIndexFile(subsystem)
        matches == ReexportMatches(ContentOf(index_file))
    IN IF ~Exists(index_file) THEN <<>>
       ELSE ConcatAll([k \in 1..Len(matches) |->
                _check_reexport_violation(subsystem, matches[k].path, matches[k].line)])

check_reexport_boundaries(subs) ==
    LET OfSubsystem(subsystem) ==
            LET violations == _find_reexport_violations(subsystem)
            IN IF violations = <<>> THEN <<>>
               ELSE <<ArchError("reexport_boundary", "error", subsystem.path, NONE, 0,
                                "FIX_REEXPORT_BOUNDARY", <<>>)>>
                    \o [k \in 1..Len(violations) |->
                          ArchError("reexport_boundary", "error", subsystem.path,
                                    Append(subsystem.path, INDEX_TS), violations[k].line,
                                    "FIX_REEXPORT_BOUNDARY", violations[k].import)]
    IN ConcatAll([i \in 1..Len(subs) |-> OfSubsystem(subs[i])])

\* glob("**/index.ts") and then glob("**/index.tsx"), test files left out
_find_all_index_files ==
    LET Named(name) ==
            SelectSeq(ts_files, LAMBDA f : Name(f.path) = name /\ ~is_test_file(f.path))
        found == Named(INDEX_TS) \o Named(INDEX_TSX)
    IN [i \in 1..Len(found) |-> found[i].path]

_is_index_in_formal_subsystem(index_file) == HasManifest(Parent(index_file))

_create_pseudo_subsystem(index_file) ==
    [path |-> Parent(index_file),
     name |-> Name(Parent(index_file)),
     dependencies |-> [type |-> "", allowed |-> <<>>, allowedChildren |-> <<>>,
                       subsystems |-> <<>>],
     parent_path |-> Parent(Parent(index_file))]

_find_standalone_index_violations(pseudo_subsystem) ==
    LET index_ts == Append(pseudo_subsystem.path, INDEX_TS)
        index_tsx == Append(pseudo_subsystem.path, INDEX_TSX)
        index_file == IF Exists(index_ts) THEN index_ts ELSE index_tsx
        matches == ReexportMatches(ContentOf(index_file))
    IN IF ~Exists(index_file) THEN <<>>
       ELSE ConcatAll([k \in 1..Len(matches) |->
                IF _is_upward_reexport(pseudo_subsystem, matches[k].path)
                THEN <<[line |-> matches[k].line, import |-> matches[k].path,
                        reason |-> "upward"]>>
                ELSE <<>>])

check_standalone_index_reexports(index_files) ==
    LET OfIndex(index_file) ==
            LET pseudo_subsystem == _create_pseudo_subsystem(index_file)
                violations == _find_standalone_index_violations(pseudo_subsystem)
            IN IF _is_index_in_formal_subsystem(index_file) \/ violations = <<>> THEN <<>>
               ELSE <<ArchError("reexport_boundary", "error", Parent(index_file), NONE, 0,
                                "FIX_REEXPORT_BOUNDARY", <<>>)>>
                    \o [k \in 1..Len(violations) |->
                          ArchError("reexport_boundary", "error", Parent(index_file),
                                    index_file, violations[k].line,
                                    "FIX_UPWARD_REEXPORT", violations[k].import)]
    IN ConcatAll([i \in 1..Len(index_files) |-> OfIndex(index_files[i])])

----------------------------------------------------------------------------
(* Domain import restrictions (rules/domain_rules.py).                     *)

DOMAINS_PATH == SRC \o << <<"lib">>, <<"domains">> >>

IsUnderDir(path, dir) == Len(dir) <= Len(path) /\ SubSeq(path, 1, Len(dir)) = dir

\* name ends with ".ts": the match of the glob "*.ts"
IsTsName(name) == EndsWith(name, <<".", "ts">>)

\* a statement  from 'p'  with p = path, or with p beginning with prefix
ImportsExactly(f, path) == \E k \in 1..Len(f.content) :
    HasFromClause(f.content[k]) /\ f.content[k].path = path

ImportsBeginning(f, prefix) == \E k \in 1..Len(f.content) :
    HasFromClause(f.content[k]) /\ StartsWith(f.content[k].path, prefix)

\* str.replace(".ts", "")
RECURSIVE RemoveDotTs(_)
RemoveDotTs(s) ==
    IF s = <<>> THEN <<>>
    ELSE IF StartsWith(s, <<".", "ts">>) THEN RemoveDotTs(Drop(s, 2))
    ELSE <<Head(s)>> \o RemoveDotTs(Tail(s))

_check_refined_service_import_violations(service_file) ==
    LET domain_name == service_file.path[Len(service_file.path) - 2]
        service_import_path == RemoveDotTs(AbsPath(service_file.path))
        services_index == LIB_DOMAINS \o domain_name \o <<SLASH, "services">>
        in_domain == <<"lib", SLASH, "domains", SLASH>> \o domain_name
        OfFile(f) ==
            LET file_str == PathStr(f.path)
                file_path_str == PathStr(Tail(f.path))
            IN IF /\ f.path # service_file.path
                  /\ ~Contains(file_str, <<SLASH, "api", SLASH>>)
                  /\ ~Contains(file_str, <<SLASH, "server", SLASH>>)
                  /\ f.content # <<>>
                  /\ ImportsExactly(f, service_import_path) \/ ImportsExactly(f, services_index)
                  /\ file_path_str # in_domain \o <<SLASH, "index", ".", "ts">>
                  /\ ~Contains(file_path_str, in_domain \o <<SLASH, "services">>)
               THEN <<ArchError("domain_import", "error", Parent(service_file.path),
                                Tail(f.path), 0,
                                IF Contains(file_path_str, in_domain \o <<SLASH>>)
                                THEN "FIX_DOMAIN_SERVICE_IMPORT" ELSE "MOVE_SERVICE_TO_API",
                                <<>>)>>
               ELSE <<>>
        files == find_typescript_files
    IN ConcatAll([i \in 1..Len(files) |-> OfFile(files[i])])

_check_cross_domain_violations ==
    LET domain_dirs == {d \in ExistingDirs : Parent(d) = DOMAINS_PATH}
        Forbidden(other) ==
            {LIB_DOMAINS \o Name(other) \o <<SLASH>> \o tail :
                tail \in {<<"services">>, <<"infrastructure">>, <<"_">>, <<"index">>}}
        OfPair(f, domain_dir, other) ==
            IF other # domain_dir /\ \E prefix \in Forbidden(other) : ImportsBeginning(f, prefix)
            THEN <<ArchError("domain_import", "error", Parent(f.path), Tail(f.path), 0,
                             "REMOVE_CROSS_DOMAIN_IMPORT", <<>>)>>
            ELSE <<>>
        OfFile(f) ==
            IF IsTsName(Name(f.path)) /\ f.content # <<>>
               /\ \E d \in domain_dirs : IsUnderDir(f.path, d)
            THEN LET domain_dir == CHOOSE d \in domain_dirs : IsUnderDir(f.path, d)
                     others == SetToSeq(domain_dirs)
                 IN ConcatAll([k \in 1..Len(others) |-> OfPair(f, domain_dir, others[k])])
            ELSE <<>>
    IN ConcatAll([i \in 1..Len(ts_files) |-> OfFile(ts_files[i])])

check_domain_import_restrictions ==
    LET service_files ==
            SelectSeq(ts_files, LAMBDA f :
                /\ IsUnderDir(f.path, DOMAINS_PATH)
                /\ Len(f.path) > Len(DOMAINS_PATH) + 1
                /\ Name(Parent(f.path)) = <<"services">>
                /\ IsTsName(Name(f.path))
                /\ Name(f.path) # <<"index", ".", "ts">>)
    IN IF DOMAINS_PATH \notin ExistingDirs THEN <<>>
       ELSE ConcatAll([i \in 1..Len(service_files) |->
                          _check_refined_service_import_violations(service_files[i])])
            \o _check_cross_domain_violations

----------------------------------------------------------------------------
(* App and page isolation (rules/app_page_rules.py).                       *)

APP_DIR == SRC \o << <<"app">> >>

check_app_isolation ==
    LET files == find_typescript_files
        OfImport(f, import_path) ==
            IF StartsWith(import_path, <<"~", SLASH, "app">>)
            THEN <<ArchError("import_boundary", "error", Parent(Tail(f.path)), f.path, 0,
                             "MOVE_SHARED_CODE", import_path)>>
            ELSE <<>>
        OfFile(f) ==
            IF IsUnderDir(f.path, APP_DIR) THEN <<>>
            ELSE LET imports == get_file_info(f).imports
                 IN ConcatAll([j \in 1..Len(imports) |-> OfImport(f, imports[j])])
    IN IF APP_DIR \notin ExistingDirs THEN <<>>
       ELSE ConcatAll([i \in 1..Len(files) |-> OfFile(files[i])])

check_page_isolation(subs) ==
    LET pages == {i \in 1..Len(subs) : subs[i].subsystem_type = "page"}
        PagePath(i) == RStripSlash(AbsPath(subs[i].path))
        OfImport(i, file_info, import_path) ==
            LET normalized_import == RStripSlash(import_path)
                hits == SetToSeq({k \in pages :
                            /\ PagePath(k) # PagePath(i)
                            /\ \/ normalized_import = PagePath(k)
                               \/ StartsWith(normalized_import, PagePath(k) \o <<SLASH>>)})
            IN [k \in 1..Len(hits) |->
                   ArchError("import_boundary", "error", subs[i].path, file_info.path, 0,
                             "MOVE_SHARED_CODE", import_path)]
        OfFile(i, file_info) ==
            ConcatAll([j \in 1..Len(file_info.imports) |->
                          OfImport(i, file_info, file_info.imports[j])])
        OfPage(i) ==
            IF i \in pages
            THEN ConcatAll([k \in 1..Len(subs[i].files) |-> OfFile(i, subs[i].files[k])])
            ELSE <<>>
    IN ConcatAll([i \in 1..Len(subs) |-> OfPage(i)])

----------------------------------------------------------------------------
(* The trees a run starts from.                                            *)

X == <<"x">>
Y == <<"y">>
Z == <<"z">>
W == <<"w">>
G == <<"g">>
V == <<"v">>
P == <<"p">>
Q == <<"q">>
XY == <<"x", "y">>
LIB == <<"lib">>
DOMAINS == <<"domains">>
UTILS == <<"utils">>
SERVICES == <<"services">>
APP == <<"app">>
TS(name) == name \o <<".", "ts">>

\* the import path '~/a/b' of the segments <<a, b>>, '~' of none
Tilde(segs) == IF segs = <<>> THEN <<"~">> ELSE <<"~", SLASH>> \o Join(segs)

\* a declaration: directory dir lists entry in its 'allowed' or 'allowedChildren'
Declarations(dirs, keys, entries) ==
    {decl \in SUBSET (dirs \X keys \X entries) : Cardinality(decl) <= MaxDeclared}

ManifestOf(dir, type, decl) ==
    [type |-> type,
     allowed |-> SetToSeq({t[3] : t \in {u \in decl : u[1] = dir /\ u[2] = "allowed"}}),
     allowedChildren |->
         SetToSeq({t[3] : t \in {u \in decl : u[1] = dir /\ u[2] = "allowedChildren"}}),
     subsystems |-> <<>>]

SourceFile(dir, name, content) == [path |-> Append(dir, name), content |-> content]

\* no threshold override is looked up
NoThresholds ==
    /\ exception_files = <<>>
    /\ _exception_cache = <<>>
    /\ custom_threshold = <<>>

\* no Rule of 6 checker is at work
NoRuleOf6 ==
    /\ ruleof6_files = <<>>
    /\ _file_exceptions = <<>>
    /\ _function_exceptions = <<>>
    /\ functions = <<>>

\* no worker calls the cache directly, no record is added by hand
NoCache ==
    /\ file_cache = <<>>
    /\ dependency_cache = <<>>
    /\ calls = <<>>
    /\ added = <<>>

\* a checker that has not started its run
FreshRun ==
    /\ NoCache
    /\ pc = "start"
    /\ subsystems = <<>>
    /\ pending = {}
    /\ allowed_sets = <<>>
    /\ collected = <<>>
    /\ errors = <<>>
    /\ warnings = <<>>
    /\ include_warnings = FALSE
    /\ exit_code = -1
    /\ NoThresholds
    /\ NoRuleOf6

\* a run over manifests that all hold a JSON object
StartOfRun ==
    /\ deps_content = [d \in DOMAIN manifest |-> "object"]
    /\ raised = ""
    /\ FreshRun

\* Nesting: a chain src > x > y > z and a domain p beside it, manifests on
\* any of them, one file importing an ancestor, a granted entry or an
\* unrelated path.
HierarchyDirs ==
    {SRC, SRC \o <<X>>, SRC \o <<X, Y>>, SRC \o <<X, Y, Z>>, SRC \o <<LIB, DOMAINS, P>>}
HierarchyEntries == {Tilde(<<G>>), Tilde(<<W>>)}
HierarchyImports ==
    {Tilde(<<>>), AbsPath(SRC), Tilde(<<X>>), Tilde(<<X, Y>>), Tilde(<<G>>), Tilde(<<W>>),
     Tilde(<<W, Z>>)}

InitHierarchy ==
    /\ \E dirs \in SUBSET HierarchyDirs :
         /\ dirs # {} /\ Cardinality(dirs) <= MaxSubsystems
         /\ \E decl \in Declarations(dirs, {"allowed", "allowedChildren"}, HierarchyEntries) :
              /\ manifest = [d \in dirs |-> ManifestOf(d, "", decl)]
              /\ deps_files = SetToSeq(dirs)
    /\ \E dir \in {SRC \o <<X, Y, Z>>, SRC \o <<X, Y>>, SRC \o <<LIB, DOMAINS, P>>},
          path \in HierarchyImports :
         ts_files = <<SourceFile(dir, TS(<<"f">>), <<Stmt("import_from", path)>>)>>
    /\ StartOfRun

\* types chosen per manifest
Typed(dirs, types) == [dirs -> types]

\* Boundaries: a subsystem x with a nested y, a sibling xy whose path begins
\* like x's, an unrelated w; one plain or index file importing into x or xy.
BoundaryDirs == {SRC \o <<X>>, SRC \o <<X, Y>>, SRC \o <<XY>>, SRC \o <<W>>}
BoundaryTypes == {"", "router", "api"}
BoundaryNames == {TS(<<"f">>), TS(<<"index">>), TS(<<"index">>) \o <<"x">>}
BoundaryImports ==
    {Tilde(<<X>>), Tilde(<<X, <<"internal">>>>), Tilde(<<X, <<"index">>>>), Tilde(<<X, Y>>),
     Tilde(<<X, Y, <<"internal">>>>), Tilde(<<XY, <<"internal">>>>)}

InitBoundary ==
    /\ \E dirs \in SUBSET BoundaryDirs :
         /\ dirs # {} /\ Cardinality(dirs) <= MaxSubsystems
         /\ \E type \in Typed(dirs, BoundaryTypes) :
              /\ manifest = [d \in dirs |-> ManifestOf(d, type[d], {})]
              /\ deps_files = SetToSeq(dirs)
    /\ \E dir \in BoundaryDirs \cup {SRC}, name \in BoundaryNames, path \in BoundaryImports :
         ts_files = <<SourceFile(dir, name, <<Stmt("import_from", path)>>)>>
    /\ StartOfRun

\* Allow-lists: a subsystem y nested in x, with a possible subsystem z below
\* it, importers in a sibling v under x, in x itself and in an unrelated w;
\* the import is static, dynamic, or both side by side in two files.
AllowDirs ==
    {SRC \o <<X>>, SRC \o <<X, Y>>, SRC \o <<X, Y, Z>>, SRC \o <<X, V>>, SRC \o <<W>>}
AllowEntries == {Tilde(<<X>>), Tilde(<<X, Y>>)}
AllowImports ==
    {Tilde(<<X, Y>>), Tilde(<<X, Y, Z>>), Tilde(<<X, Y, Z, Q>>),
     <<"react">>, Join(<<X, Y, Z>>), <<"~">>}

Contents(path) ==
    {<<[name |-> TS(<<"f">>), statement |-> Stmt("import_from", path)]>>,
     <<[name |-> TS(<<"g">>), statement |-> Stmt("dynamic", path)]>>,
     <<[name |-> TS(<<"f">>), statement |-> Stmt("import_from", path)],
       [name |-> TS(<<"g">>), statement |-> Stmt("dynamic", path)]>>}

InitAllow ==
    /\ \E dirs \in SUBSET AllowDirs :
         /\ dirs # {} /\ Cardinality(dirs) <= MaxSubsystems
         /\ \E decl \in Declarations(dirs, {"allowed"}, AllowEntries),
               type \in {"", "router"} :
              /\ type = "router" => SRC \o <<X, Y>> \in dirs
              /\ manifest = [d \in dirs |->
                                ManifestOf(d, IF d = SRC \o <<X, Y>> THEN type ELSE "", decl)]
              /\ deps_files = SetToSeq(dirs)
    /\ \E dir \in {SRC \o <<X, V>>, SRC \o <<X>>, SRC \o <<W>>}, path \in AllowImports :
         \E files \in Contents(path) :
             ts_files = [i \in 1..Len(files) |->
                            SourceFile(dir, files[i].name, <<files[i].statement>>)]
    /\ StartOfRun

\* Domains: a domain p with subsystems utils and svc and a services
\* directory, a second domain q and an unrelated w; one plain or index file
\* importing p's utils or p's internals.
DomainP == SRC \o <<LIB, DOMAINS, P>>
DomainQ == SRC \o <<LIB, DOMAINS, Q>>
DomainDirs == {DomainP, DomainP \o <<UTILS>>, DomainP \o <<<<"svc">>>>, DomainQ, SRC \o <<W>>}
DomainImports ==
    {Tilde(<<LIB, DOMAINS, P, UTILS>>), Tilde(<<LIB, DOMAINS, P, UTILS, <<"helper">>>>),
     Tilde(<<LIB, DOMAINS, P, UTILS, <<"a">>, <<"b">>>>),
     Tilde(<<LIB, DOMAINS, P, <<"utils", "x">>>>),
     Tilde(<<LIB, DOMAINS, P, <<"svc">>, <<"internal">>>>),
     Tilde(<<LIB, DOMAINS, P, SERVICES, <<"item">>>>)}

InitDomain ==
    /\ \E dirs \in SUBSET DomainDirs :
         /\ dirs # {} /\ Cardinality(dirs) <= MaxSubsystems
         /\ \E decl \in Declarations(dirs, {"allowed"}, {Tilde(<<LIB, DOMAINS, P>>)}) :
              /\ manifest = [d \in dirs |-> ManifestOf(d, "", decl)]
              /\ deps_files = SetToSeq(dirs)
    /\ \E dir \in {SRC \o <<W>>, DomainQ, DomainP \o <<<<"svc">>>>, DomainP, SRC \o <<LIB>>},
          name \in {TS(<<"f">>), TS(<<"index">>)}, path \in DomainImports,
          service \in SUBSET {SourceFile(DomainP \o <<SERVICES>>, TS(<<"item">>), <<>>)} :
         ts_files = <<SourceFile(dir, name, <<Stmt("import_from", path)>>)>> \o SetToSeq(service)
    /\ StartOfRun

\* Relative imports: app sections admin and user, domains p and q; one file
\* importing with './' or '../', inside its own subtree or into another one.
RelativeDirs == {SRC \o <<APP, <<"admin">>>>, SRC \o <<APP, <<"user">>>>, DomainP, DomainQ}
DotDot == <<".", ".">>
RelativeImports ==
    {Join(<<DotDot, <<"user">>, <<"components">>, <<"U">>>>),
     Join(<<DotDot, DotDot, <<"user">>, <<"U">>>>),
     Join(<<DotDot, Q, SERVICES, <<"item">>>>),
     Join(<<DotDot, DotDot, Q, SERVICES, <<"item">>>>),
     Join(<<DotDot, <<"components">>, <<"C">>>>),
     Join(<<<<".">>, <<"local">>>>),
     Tilde(<<APP, <<"user">>, <<"components">>, <<"U">>>>)}

InitRelative ==
    /\ \E dirs \in SUBSET RelativeDirs :
         /\ dirs # {} /\ Cardinality(dirs) <= MaxSubsystems
         /\ \E type \in Typed(dirs, {"", "page"}) :
              /\ manifest = [d \in dirs |-> ManifestOf(d, type[d], {})]
              /\ deps_files = SetToSeq(dirs)
    /\ \E dir \in {SRC \o <<APP, <<"admin">>>>, SRC \o <<APP, <<"admin">>, <<"components">>>>,
                    DomainP, DomainP \o <<SERVICES>>},
          name \in {TS(<<"f">>), TS(<<"page">>) \o <<"x">>}, path \in RelativeImports :
         ts_files = <<SourceFile(dir, name, <<Stmt("import_from", path)>>)>>
    /\ StartOfRun

\* Index files: one directory S among x/y, the domain p and its utils, with
\* or without a manifest of its own and of its parent, an index.ts, an
\* index.tsx or both in S, each holding one re-export statement, and at most
\* one more file beneath S for './a' or './utils' to resolve to.
PQ == <<"p", "q">>
ReexportDirs == {SRC \o <<X, Y>>, DomainP, DomainP \o <<UTILS>>}
ReexportSources ==
    {Join(<<<<".">>, <<"a">>>>),
     Join(<<<<".">>, UTILS>>),
     Join(<<<<".">>, UTILS, <<"a">>>>),
     Join(<<DotDot, <<"svc">>>>),
     Tilde(<<X>>),
     Tilde(<<X, Y, <<"a">>>>),
     Tilde(<<X, W>>),
     Tilde(<<X, <<"y", "z">>>>),
     Tilde(<<LIB, DOMAINS, P, UTILS>>),
     Tilde(<<LIB, DOMAINS, P, UTILS, <<"a">>>>),
     Tilde(<<LIB, DOMAINS, P, <<"svc">>>>),
     Tilde(<<LIB, DOMAINS, PQ, <<"svc">>>>),
     Tilde(<<LIB, DOMAINS, Q, <<"svc">>>>),
     <<"react">>}
ReexportDeclared == {<<>>, <<Join(<<<<".">>, <<"a">>>>)>>, <<Join(<<<<".">>, UTILS>>)>>}

\* the index files of S: index.ts alone with any kind of re-export statement,
\* index.tsx alone, or both
IndexFiles(dir) ==
    {<<SourceFile(dir, INDEX_TS, <<Stmt(kind, path)>>)>> :
        kind \in Range(REEXPORT_PATTERNS), path \in ReexportSources}
    \cup {<<SourceFile(dir, INDEX_TSX, <<Stmt("export_from", path)>>)>> :
            path \in ReexportSources}
    \cup {<<SourceFile(dir, INDEX_TS, <<Stmt("export_from", path)>>),
            SourceFile(dir, INDEX_TSX, <<Stmt("export_from", other)>>)>> :
            path \in ReexportSources,
            other \in {Join(<<DotDot, <<"svc">>>>), Join(<<<<".">>, <<"a">>>>)}}

InternalFiles(dir) ==
    {<<>>,
     <<SourceFile(dir, TS(<<"a">>), <<>>)>>,
     <<SourceFile(dir \o <<<<"a">>>>, INDEX_TSX, <<>>)>>,
     <<SourceFile(dir \o <<UTILS>>, INDEX_TS, <<>>)>>}

InitReexport ==
    /\ \E dir \in ReexportDirs :
         /\ \E own \in SUBSET {dir}, above \in SUBSET {Parent(dir)},
               declared \in ReexportDeclared :
              /\ own = {} => declared = <<>>
              /\ manifest = [d \in own \cup above |->
                                IF d = dir
                                THEN [ManifestOf(d, "", {}) EXCEPT !.subsystems = declared]
                                ELSE ManifestOf(d, "", {})]
              /\ deps_files = SetToSeq(above) \o SetToSeq(own)
         /\ \E index \in IndexFiles(dir), internal \in InternalFiles(dir) :
              ts_files = index \o internal
    /\ StartOfRun

\* Structure: manifests on any of src, x, x/y, x/y/z and x/w, each declaring
\* all of its children in 'subsystems' or none; entries ~/x and ~/g in the
\* 'allowed' and 'allowedChildren' lists; files at every level, in plain
\* directories too, each importing the undeclared ~/v.
StructureDirs ==
    {SRC, SRC \o <<X>>, SRC \o <<X, Y>>, SRC \o <<X, Y, Z>>, SRC \o <<X, W>>}
StructureEntries == {Tilde(<<X>>), Tilde(<<G>>)}
StructureDeclared ==
    {<<>>, <<DOT_SLASH \o X, DOT_SLASH \o Y, DOT_SLASH \o Z, DOT_SLASH \o W>>}
StructureFiles ==
    LET Importing(dir, name) == SourceFile(dir, name, <<Stmt("import_from", Tilde(<<V>>))>>)
    IN {<<Importing(SRC \o <<X>>, TS(<<"f">>)),
          Importing(SRC \o <<X, G>>, TS(<<"f">>)),
          Importing(SRC \o <<X, Y>>, TS(<<"f">>)),
          Importing(SRC \o <<X, Y>>, TS(<<"f", ".", "test">>)),
          Importing(SRC \o <<X, Y, Z>>, TS(<<"f">>))>>,
        <<Importing(SRC \o <<W>>, TS(<<"f">>)),
          Importing(SRC \o <<X, W>>, INDEX_TSX),
          Importing(SRC \o <<X, Y, G>>, TS(<<"f">>)),
          Importing(SRC \o <<X, Y, Z, V>>, TS(<<"f">>))>>}

InitStructure ==
    /\ \E dirs \in SUBSET StructureDirs :
         /\ dirs # {} /\ Cardinality(dirs) <= MaxSubsystems
         /\ \E decl \in Declarations(dirs, {"allowed", "allowedChildren"}, StructureEntries),
               declared \in StructureDeclared :
              /\ manifest = [d \in dirs |->
                                [ManifestOf(d, "", decl) EXCEPT !.subsystems = declared]]
              /\ deps_files = SetToSeq(dirs)
    /\ ts_files \in StructureFiles
    /\ StartOfRun

\* Manifests of every kind: on x, x/y and w a dependencies.json that holds an
\* object, text that is no JSON, bytes that are no UTF-8, JSON that is no
\* object, or that cannot be opened; the files of the Structure trees.
ManifestDirs == {SRC \o <<X>>, SRC \o <<X, Y>>, SRC \o <<W>>}
ManifestKinds == {"object", "invalid_json", "undecodable", "not_object", "unreadable"}

InitManifest ==
    /\ \E dirs \in SUBSET ManifestDirs :
         /\ dirs # {} /\ Cardinality(dirs) <= MaxSubsystems
         /\ deps_content \in [dirs -> ManifestKinds]
         /\ \E decl \in Declarations(dirs, {"allowed", "allowedChildren"}, StructureEntries) :
              /\ manifest = [d \in dirs |->
                                IF deps_content[d] = "object" THEN ManifestOf(d, "", decl)
                                ELSE EMPTY_DICT]
              /\ \A t \in decl : deps_content[t[1]] = "object"
              /\ deps_files = SetToSeq(dirs)
    /\ ts_files \in StructureFiles
    /\ raised = ""
    /\ FreshRun

\* Shared objects: domain p with a subsystem svc, domain q and an unrelated
\* w; one file importing the _objects of p or of q, or a path beneath them;
\* the manifests allow p's _objects, all of p, or nothing.
OBJECTS == <<"_objects">>
ObjectsDirs == {DomainP, DomainP \o <<<<"svc">>>>, DomainQ, SRC \o <<W>>}
ObjectsEntries == {Tilde(<<LIB, DOMAINS, P, OBJECTS>>), Tilde(<<LIB, DOMAINS, P>>)}
ObjectsImports ==
    {Tilde(<<LIB, DOMAINS, P, OBJECTS>>), Tilde(<<LIB, DOMAINS, P, OBJECTS, <<"item">>>>),
     Tilde(<<LIB, DOMAINS, Q, OBJECTS>>), Tilde(<<LIB, DOMAINS, P, <<"_objects", "x">>>>)}

InitObjects ==
    /\ \E dirs \in SUBSET ObjectsDirs :
         /\ dirs # {} /\ Cardinality(dirs) <= MaxSubsystems
         /\ \E decl \in Declarations(dirs, {"allowed", "allowedChildren"}, ObjectsEntries) :
              /\ manifest = [d \in dirs |-> ManifestOf(d, "", decl)]
              /\ deps_files = SetToSeq(dirs)
    /\ \E dir \in {DomainP \o <<<<"svc">>>>, DomainP, DomainQ, SRC \o <<W>>},
          path \in ObjectsImports :
         ts_files = <<SourceFile(dir, TS(<<"f">>), <<Stmt("import_from", path)>>)>>
    /\ StartOfRun

\* App isolation: the app directory with one file of its own, a directory x
\* and a directory apple whose name begins with "app"; one more file, inside
\* or outside src/app, importing ~/app, a path beneath it, a path beneath
\* ~/apple or ~/x. No manifest declares a page.
APPLE == <<"app", "le">>
AppDirs == {APP_DIR, SRC \o <<X>>, SRC \o <<APPLE>>}
AppImports ==
    {Tilde(<<APP>>), Tilde(<<APP, <<"thing">>>>), Tilde(<<APPLE, <<"thing">>>>),
     Tilde(<<X>>)}

InitApp ==
    /\ \E dirs \in SUBSET AppDirs :
         /\ dirs # {} /\ Cardinality(dirs) <= MaxSubsystems
         /\ \E decl \in Declarations(dirs, {"allowed"}, {Tilde(<<APP>>)}) :
              /\ manifest = [d \in dirs |-> ManifestOf(d, "", decl)]
              /\ deps_files = SetToSeq(dirs)
    /\ \E dir \in {SRC \o <<X>>, SRC \o <<APPLE>>, APP_DIR, APP_DIR \o <<<<"admin">>>>},
          path \in AppImports :
         ts_files = <<SourceFile(APP_DIR, TS(<<"home">>), <<>>),
                      SourceFile(dir, TS(<<"f">>), <<Stmt("import_from", path)>>)>>
    /\ StartOfRun

----------------------------------------------------------------------------
(* run_all_checks.                                                         *)

MaxWorkers == 4

\* _find_all_subsystems at the start of run_all_checks; an exception at one
\* of the manifests is caught nowhere and ends the process with status 1
FindAllSubsystems ==
    /\ pc = "start"
    /\ LET failing == {i \in 1..Len(deps_files) : RaisedAt(deps_files[i]) # ""}
           first == CHOOSE i \in failing : \A j \in failing : i <= j
       IN IF failing = {}
          THEN /\ subsystems' = _find_all_subsystems
               /\ pc' = "subsystem_checks"
               /\ UNCHANGED <<raised, exit_code>>
          ELSE /\ raised' = RaisedAt(deps_files[first])
               /\ pc' = "raised"
               /\ exit_code' = 1
               /\ UNCHANGED subsystems
    /\ UNCHANGED <<outside_run, manifest, deps_content, deps_files, ts_files, include_warnings,
                   pending, allowed_sets, collected, errors, warnings>>

\* _run_subsystem_checks: the declaration check and the redundancy checks
RunSubsystemChecks ==
    /\ pc = "subsystem_checks"
    /\ LET found == check_subsystem_declarations(subsystems)
                    \o check_hierarchical_redundancy(subsystems)
                    \o check_redundant_dependencies(subsystems)
                    \o check_ancestor_redundancy(subsystems)
                    \o check_domain_utils_redundancy(subsystems)
       IN /\ errors' = errors \o AddedErrors(found)
          /\ warnings' = warnings \o AddedWarnings(found)
    /\ pc' = "import_boundaries"
    /\ UNCHANGED <<outside_run, manifest, deps_content, raised, deps_files, ts_files, include_warnings, exit_code, subsystems,
                   pending, allowed_sets, collected>>

\* the head of _run_import_checks: import boundaries and re-export boundaries
CheckImportBoundaries ==
    /\ pc = "import_boundaries"
    /\ LET found == check_import_boundaries(subsystems)
                    \o check_reexport_boundaries(subsystems)
       IN /\ errors' = errors \o AddedErrors(found)
          /\ warnings' = warnings \o AddedWarnings(found)
    /\ pc' = "outbound"
    /\ UNCHANGED <<outside_run, manifest, deps_content, raised, deps_files, ts_files, include_warnings, exit_code,
                   subsystems, pending, allowed_sets, collected>>

\* executor.submit(check_single_subsystem, subsystem) for every subsystem
SubmitOutbound ==
    /\ pc = "outbound"
    /\ pending' = 1..Len(subsystems)
    /\ allowed_sets' = [i \in 1..Len(subsystems) |-> {}]
    /\ collected' = <<>>
    /\ pc' = "outbound_wait"
    /\ UNCHANGED <<outside_run, manifest, deps_content, raised, deps_files, ts_files, include_warnings, exit_code,
                   subsystems, errors, warnings>>

\* a pool that keeps the list of the task that completed last
KeepLatest(list, subsystem_errors) == subsystem_errors

\* errors.extend(subsystem_errors)
extend(list, subsystem_errors) == list \o subsystem_errors

\* a future completes and as_completed hands it over: the pool runs the
\* tasks in submission order on MaxWorkers threads, so task i has started
\* once fewer than MaxWorkers earlier tasks are unfinished
CheckSingleSubsystem(i) ==
    /\ pc = "outbound_wait"
    /\ i \in pending
    /\ Cardinality({j \in pending : j < i}) < MaxWorkers
    /\ pending' = pending \ {i}
    /\ allowed_sets' = [allowed_sets EXCEPT ![i] = all_allowed(subsystems[i])]
    /\ collected' = extend(collected, check_single_subsystem(subsystems[i]))
    /\ UNCHANGED <<outside_run, manifest, deps_content, raised, deps_files, ts_files, include_warnings, exit_code, pc,
                   subsystems, errors, warnings>>

JoinOutbound ==
    /\ pc = "outbound_wait"
    /\ pending = {}
    /\ errors' = errors \o AddedErrors(collected)
    /\ warnings' = warnings \o AddedWarnings(collected)
    /\ pc' = "import_patterns"
    /\ UNCHANGED <<outside_run, manifest, deps_content, raised, deps_files, ts_files, include_warnings, exit_code,
                   subsystems, pending, allowed_sets, collected>>

\* the rest of _run_import_checks: router and domain-utils import patterns
CheckImportPatterns ==
    /\ pc = "import_patterns"
    /\ LET found == check_router_import_patterns(subsystems)
                    \o check_domain_utils_import_patterns(subsystems)
       IN /\ errors' = errors \o AddedErrors(found)
          /\ warnings' = warnings \o AddedWarnings(found)
    /\ pc' = "standalone_index_checks"
    /\ UNCHANGED <<outside_run, manifest, deps_content, raised, deps_files, ts_files, include_warnings, exit_code,
                   subsystems, pending, allowed_sets, collected>>

\* _run_standalone_index_checks
RunStandaloneIndexChecks ==
    /\ pc = "standalone_index_checks"
    /\ LET found == check_standalone_index_reexports(_find_all_index_files)
       IN /\ errors' = errors \o AddedErrors(found)
          /\ warnings' = warnings \o AddedWarnings(found)
    /\ pc' = "domain_checks"
    /\ UNCHANGED <<outside_run, manifest, deps_content, raised, deps_files, ts_files, include_warnings, exit_code, subsystems,
                   pending, allowed_sets, collected>>

\* _run_domain_checks, the import restrictions
RunDomainChecks ==
    /\ pc = "domain_checks"
    /\ LET found == check_domain_import_restrictions
       IN /\ errors' = errors \o AddedErrors(found)
          /\ warnings' = warnings \o AddedWarnings(found)
    /\ pc' = "app_page_checks"
    /\ UNCHANGED <<outside_run, manifest, deps_content, raised, deps_files, ts_files, include_warnings, exit_code,
                   subsystems, pending, allowed_sets, collected>>

\* _run_app_page_checks, the isolation checks
RunAppPageChecks ==
    /\ pc = "app_page_checks"
    /\ LET found == check_app_isolation \o check_page_isolation(subsystems)
       IN /\ errors' = errors \o AddedErrors(found)
          /\ warnings' = warnings \o AddedWarnings(found)
    /\ pc' = "done"
    /\ UNCHANGED <<outside_run, manifest, deps_content, raised, deps_files, ts_files, include_warnings, exit_code,
                   subsystems, pending, allowed_sets, collected>>

\* a reporter that counts warnings as failures
HasIssues(results) == Len(results.errors) + Len(results.warnings) > 0

\* CheckResults.has_errors
has_errors(results) == Len(results.errors) > 0

\* ArchitectureReporter.report_results: True when the results hold no error
report_results(results) == ~has_errors(results)

\* main, once run_all_checks has returned: the flag --include-warnings is
\* read here for the first time, the warnings are dropped without it, and the
\* process exits with the status the reporter decides
Main ==
    /\ pc = "done"
    /\ \E flag \in BOOLEAN :
         LET kept == IF flag THEN warnings ELSE <<>>
             success == report_results([errors |-> errors, warnings |-> kept])
         IN /\ include_warnings' = flag
            /\ warnings' = kept
            /\ exit_code' = IF success THEN 0 ELSE 1
    /\ pc' = "exited"
    /\ UNCHANGED <<outside_run, manifest, deps_content, raised, deps_files, ts_files, subsystems, pending, allowed_sets,
                   collected, errors>>

Init ==
    \/ InitHierarchy \/ InitBoundary \/ InitAllow \/ InitDomain \/ InitRelative
    \/ InitReexport \/ InitStructure \/ InitManifest \/ InitObjects \/ InitApp

Next ==
    \/ FindAllSubsystems
    \/ RunSubsystemChecks
    \/ CheckImportBoundaries
    \/ SubmitOutbound
    \/ \E i \in 1..Len(subsystems) : CheckSingleSubsystem(i)
    \/ JoinOutbound
    \/ CheckImportPatterns
    \/ RunStandaloneIndexChecks
    \/ RunDomainChecks
    \/ RunAppPageChecks
    \/ Main

Spec == Init /\ [][Next]_vars

SpecHierarchy == InitHierarchy /\ [][Next]_vars

SpecBoundary == InitBoundary /\ [][Next]_vars

SpecAllow == InitAllow /\ [][Next]_vars

SpecDomain == InitDomain /\ [][Next]_vars

SpecRelative == InitRelative /\ [][Next]_vars

SpecReexport == InitReexport /\ [][Next]_vars

SpecStructure == InitStructure /\ [][Next]_vars

SpecManifest == InitManifest /\ [][Next]_vars

SpecApp == InitApp /\ [][Next]_vars

SpecObjects == InitObjects /\ [][Next]_vars

----------------------------------------------------------------------------
(* What a run reports, in the words of the specification.                  *)

Done == pc = "done"

\* the import edges written as  import ... from 'path'  and as  import('path')
ImportEdges(kind) ==
    UNION {{[file |-> ts_files[i].path, line |-> k, path |-> ts_files[i].content[k].path] :
               k \in {j \in 1..Len(ts_files[i].content) : ts_files[i].content[j].kind = kind}} :
           i \in 1..Len(ts_files)}

StaticImports == ImportEdges("import_from")

DynamicImports == ImportEdges("dynamic")

\* the path is root or lies beneath it, by whole segments
AtOrBeneath(path, root) == path = root \/ StartsWith(path, root \o <<SLASH>>)

\* the undeclared-outbound-dependency error of the allow-list check
OutboundError(file, path) == \E e \in Range(errors) :
    e.recommendation_type = "ADD_ALLOWED_DEPENDENCY" /\ e.file_path = file /\ e.import = path

\* the boundary violations reported against subsystem S
BoundaryViolationOf(S, file, path) == \E e \in Range(errors) :
    /\ e.recommendation_type = "USE_SUBSYSTEM_INTERFACE"
    /\ e.subsystem = S /\ e.file_path = file /\ e.import = path

BoundaryViolation(file, path) == \E S \in DOMAIN manifest : BoundaryViolationOf(S, file, path)

\* the violation groups naming S
BoundaryGroups(S) == {k \in 1..Len(errors) :
    errors[k].recommendation_type = "CREATE_SUBSYSTEM_INDEX" /\ errors[k].subsystem = S}

\* the subsystem owning a file: the nearest enclosing directory with a manifest
Owners(file) == {S \in DOMAIN manifest :
    /\ IsUnderDir(file, S)
    /\ \A T \in DOMAIN manifest : IsUnderDir(file, T) => Len(T) <= Len(S)}

IsIndexFile(file) == Name(file) \in {<<"index", ".", "ts">>, <<"index", ".", "ts", "x">>}

\* ~/lib/domains/<name>/utils or a path beneath it
IsDomainUtilsPath(path) ==
    LET parts == Split(path)
    IN /\ Len(parts) >= 5
       /\ SubSeq(parts, 1, 3) = << <<"~">>, <<"lib">>, <<"domains">> >>
       /\ parts[4] # <<>>
       /\ parts[5] = <<"utils">>

\* the target lies under ~/lib/domains/D and the file inside domain D
IsSameDomainImport(file, path) ==
    LET parts == Split(path)
    IN /\ Len(parts) >= 4
       /\ SubSeq(parts, 1, 3) = << <<"~">>, <<"lib">>, <<"domains">> >>
       /\ IsUnderDir(file, DOMAINS_PATH \o <<parts[4]>>)

----------------------------------------------------------------------------
(* C2: self-imports.                                                       *)

\* C2: an import from a file owned by subsystem S whose target is S's own
\* root or a path beneath it yields no undeclared-outbound-dependency error
\* and no boundary violation, also when the target lies inside a subsystem
\* nested beneath S.
C2_SelfImportAllowed ==
    Done => \A imp \in StaticImports : \A S \in Owners(imp.file) :
        AtOrBeneath(imp.path, AbsPath(S)) =>
            ~OutboundError(imp.file, imp.path) /\ ~BoundaryViolation(imp.file, imp.path)

----------------------------------------------------------------------------
(* C7: the subsystem-interface boundary.                                   *)

\* import path ~/<S>/<sub> with sub neither empty nor 'index'
ReachesPast(S, path) ==
    /\ StartsWith(path, AbsPath(S) \o <<SLASH>>)
    /\ Drop(path, Len(AbsPath(S)) + 1) \notin {<<>>, <<"index">>}

\* C7: an import ~/<S>/<sub> in file F is reported as a boundary violation of
\* S exactly when S is neither router nor api, F is a non-index file outside
\* S's directory and neither the same-domain nor the domain-utils exception
\* applies; a subsystem with such a violation gets exactly one group.
C7_BoundaryIff ==
    Done => \A S \in DOMAIN manifest :
        /\ \A imp \in StaticImports : ReachesPast(S, imp.path) =>
               (BoundaryViolationOf(S, imp.file, imp.path)
                  <=> /\ manifest[S].type \notin {"router", "api"}
                      /\ ~IsIndexFile(imp.file)
                      /\ ~IsUnderDir(imp.file, S)
                      /\ ~IsSameDomainImport(imp.file, imp.path)
                      /\ ~IsDomainUtilsPath(imp.path))
        /\ Cardinality(BoundaryGroups(S)) =
               IF \E imp \in StaticImports : BoundaryViolationOf(S, imp.file, imp.path)
               THEN 1 ELSE 0

----------------------------------------------------------------------------
(* C4, C5, C6: what a subsystem inherits from the subsystems above it.     *)

\* the manifest-bearing directories strictly above S
Ancestors(S) == {A \in DOMAIN manifest : A # S /\ IsUnderDir(S, A)}

IndexOf(S) == CHOOSE i \in 1..Len(subsystems) : subsystems[i].path = S

\* the set the allow-list check used for S
EffectiveSet(S) == allowed_sets[IndexOf(S)]

Sentinel(S) == IF IsUnderDir(S, DOMAINS_PATH) /\ S # DOMAINS_PATH THEN {<<"_objects">>} ELSE {}

AncestorAllowed(imp, ancestors) ==
    \A S \in Owners(imp.file) : \A A \in ancestors :
        (A \in Ancestors(S) /\ imp.path = AbsPath(A)) => ~OutboundError(imp.file, imp.path)

\* C4, as amended: an import from a file owned by S that targets the root
\* path of an ancestor subsystem A lying below the scan root src, at any
\* depth above S, yields no undeclared-outbound-dependency error, whether or
\* not S lists A.
C4_AncestorAccess ==
    Done => \A imp \in StaticImports : AncestorAllowed(imp, DOMAIN manifest \ {SRC})

\* C4, as stated: the same for every manifest-bearing directory above S,
\* the scan root included.
C4_AnyAncestor ==
    Done => \A imp \in StaticImports : AncestorAllowed(imp, DOMAIN manifest)

\* S imports the root of an ancestor two or more levels up that it does not list
C4_Witness ==
    Done /\ \E imp \in StaticImports : \E S \in Owners(imp.file) : \E A \in Ancestors(S) :
        /\ A # SRC /\ Len(S) >= Len(A) + 2
        /\ imp.path = AbsPath(A)
        /\ imp.path \notin Range(manifest[S].allowed)
        /\ ~OutboundError(imp.file, imp.path)

UnionOver(S, own, ancestors) ==
    own \cup {AbsPath(A) : A \in ancestors}
        \cup UNION {Range(manifest[A].allowedChildren) : A \in ancestors}
        \cup Sentinel(S)

\* C5, as amended: the set used for S is exactly S's own 'allowed' and
\* 'allowedChildren' entries, the root paths and 'allowedChildren' entries of
\* the ancestor subsystems of S below the scan root src, and the sentinel
\* '_objects' when S is under src/lib/domains/.
C5_EffectiveSet ==
    Done => \A S \in DOMAIN manifest :
        EffectiveSet(S) =
            UnionOver(S, Range(manifest[S].allowed) \cup Range(manifest[S].allowedChildren),
                      Ancestors(S) \ {SRC})

\* C5, as stated: exactly S's own 'allowed' entries, the root paths and
\* 'allowedChildren' entries of all ancestors, and the sentinel.
C5_UnionAsStated ==
    Done => \A S \in DOMAIN manifest :
        EffectiveSet(S) = UnionOver(S, Range(manifest[S].allowed), Ancestors(S))

\* S grants its own children an entry and has an ancestor that grants another
C5_Witness ==
    Done /\ \E S \in DOMAIN manifest : \E A \in Ancestors(S) \ {SRC} :
        /\ manifest[S].allowedChildren # <<>>
        /\ manifest[A].allowedChildren # <<>>
        /\ Range(manifest[A].allowedChildren) \cap Range(manifest[S].allowedChildren) = {}
        /\ Range(manifest[A].allowedChildren) \subseteq EffectiveSet(S)

Cascades(grantors) ==
    \A A \in grantors : \A S \in DOMAIN manifest :
        A \in Ancestors(S) => Range(manifest[A].allowedChildren) \subseteq EffectiveSet(S)

\* C6, as amended: every entry a subsystem A below the scan root src lists in
\* 'allowedChildren' is in the effective set of every subsystem beneath A,
\* with or without subsystems or plain directories in between.
C6_Cascade == Done => Cascades(DOMAIN manifest \ {SRC})

\* C6, as stated: the same for every granting subsystem, one at the scan
\* root included.
C6_CascadeFromRoot == Done => Cascades(DOMAIN manifest)

\* a grant reaches a subsystem two levels down, through a plain directory
C6_Witness ==
    Done /\ \E A \in DOMAIN manifest \ {SRC} : \E S \in DOMAIN manifest :
        /\ A \in Ancestors(S)
        /\ Len(S) = Len(A) + 2 /\ ~HasManifest(Parent(S))
        /\ \E e \in Range(manifest[A].allowedChildren) :
              /\ e \notin Range(manifest[S].allowed) \cup Range(manifest[S].allowedChildren)
              /\ e \in EffectiveSet(S)

----------------------------------------------------------------------------
(* C1: imports of external packages.                                       *)

\* no './', '../' or '~/' in front
HasNoInternalPrefix(path) ==
    /\ ~StartsWith(path, <<".", SLASH>>)
    /\ ~StartsWith(path, <<".", ".", SLASH>>)
    /\ ~StartsWith(path, <<"~", SLASH>>)

\* C1: an import whose path has no internal prefix ('./', '../', '~/') gets
\* no violation from the boundary check and none from the allow-list check,
\* whatever the manifests declare.
C1_ExternalNeverFlagged ==
    \A imp \in StaticImports \cup DynamicImports :
        HasNoInternalPrefix(imp.path) =>
            ~OutboundError(imp.file, imp.path) /\ ~BoundaryViolation(imp.file, imp.path)

\* a file of a subsystem imports the bare path x/y/z while x/y is a subsystem
\* with an interface to guard and the file's subsystem allows nothing
C1_Witness ==
    Done /\ \E imp \in StaticImports : \E S \in Owners(imp.file) :
        /\ imp.path = Join(<<X, Y, Z>>)
        /\ AllowDirs \cap DOMAIN manifest # {}
        /\ HasManifest(SRC \o <<X, Y>>) /\ manifest[SRC \o <<X, Y>>].type = ""
        /\ ~IsUnderDir(imp.file, SRC \o <<X, Y>>)
        /\ manifest[S].allowed = <<>>

----------------------------------------------------------------------------
(* C3: the grandchild re-block.                                            *)

\* the entry covers the path: the path is the entry or lies beneath it
Covers(entry, path) == path = entry \/ StartsWith(path, RStripSlash(entry) \o <<SLASH>>)

\* the cases C3 speaks of: S owns the importing file, its effective set holds
\* the entry ~/X, Y is a declared subsystem one segment past it and the file
\* is outside Y
GrandchildCases ==
    {[imp |-> imp, S |-> S, Y |-> nested] :
        imp \in StaticImports, S \in DOMAIN manifest, nested \in DOMAIN manifest \ {SRC}}

IsGrandchildCase(c) ==
    /\ c.S \in Owners(c.imp.file)
    /\ AbsPath(Parent(c.Y)) \in EffectiveSet(c.S)
    /\ ~IsUnderDir(c.imp.file, c.Y)

\* two or more segments past the entry, into Y
ReachesInto(path, nested) ==
    StartsWith(path, AbsPath(nested) \o <<SLASH>>) /\ path # AbsPath(nested) \o <<SLASH>>

\* what lets the allow-list check pass an import although it reaches into Y
PassesAnyway(S, path) ==
    \/ path \in EffectiveSet(S)
    \/ S = SRC \/ AtOrBeneath(path, AbsPath(S))
    \/ IsDomainUtilsPath(path)
    \/ IF \E T \in DOMAIN manifest : path = AbsPath(T)
       THEN \E entry \in EffectiveSet(S) : \E T \in DOMAIN manifest :
                path = AbsPath(T) /\ AbsPath(Parent(T)) = RStripSlash(entry)
       ELSE \/ IsSameDomainImport(S, path)
            \/ \E entry \in EffectiveSet(S) :
                  /\ Covers(entry, path)
                  /\ StartsWith(AbsPath(S), RStripSlash(entry) \o <<SLASH>>)

\* C3, as amended: with ~/X in S's effective set and ~/X/Y a declared
\* subsystem, a static import of a path beneath ~/X/Y from a file owned by S
\* and outside ~/X/Y is reported as an undeclared outbound dependency, unless
\* the path is itself an entry of the set, lies at or beneath S's own root,
\* or is a domain-utils path, or, being the root of a declared subsystem, it
\* lies exactly one segment past an entry of the set, or, not being such a
\* root, it lies in S's own domain or is covered by an entry that S itself
\* lies beneath; an import of exactly ~/X/Y is never reported by the
\* allow-list check.
C3_GrandchildReblock ==
    Done => \A c \in GrandchildCases : IsGrandchildCase(c) =>
        /\ ReachesInto(c.imp.path, c.Y) =>
              (OutboundError(c.imp.file, c.imp.path) <=> ~PassesAnyway(c.S, c.imp.path))
        /\ c.imp.path = AbsPath(c.Y) => ~OutboundError(c.imp.file, c.imp.path)

\* C3, as stated: the import two or more segments past the entry is denied
\* (an undeclared-outbound-dependency error or a boundary violation), the
\* import of exactly ~/X/Y is allowed (neither).
C3_AsStated ==
    Done => \A c \in GrandchildCases : IsGrandchildCase(c) =>
        LET denied == \/ OutboundError(c.imp.file, c.imp.path)
                      \/ BoundaryViolation(c.imp.file, c.imp.path)
        IN /\ ReachesInto(c.imp.path, c.Y) => denied
           /\ c.imp.path = AbsPath(c.Y) => ~denied

\* a subsystem outside x lists ~/x and is refused the import of ~/x/y/z
C3_Witness ==
    Done /\ \E c \in GrandchildCases :
        /\ IsGrandchildCase(c)
        /\ ~IsUnderDir(c.S, Parent(c.Y))
        /\ ReachesInto(c.imp.path, c.Y)
        /\ OutboundError(c.imp.file, c.imp.path)

----------------------------------------------------------------------------
(* C9: dynamic imports.                                                    *)

\* C9: a dynamic import('~/p') is decided like the static import of the same
\* path written in a file of the same directory: both get the
\* undeclared-outbound-dependency error or neither does.
C9_DynamicLikeStatic ==
    Done => \A d \in DynamicImports : \A st \in StaticImports :
        (d.path = st.path /\ Parent(d.file) = Parent(st.file)) =>
            (OutboundError(d.file, d.path) <=> OutboundError(st.file, st.path))

----------------------------------------------------------------------------
(* C8: domain-utility paths.                                               *)

----------------------------------------------------------------------------
(* C10: relative imports that leave the importer's subtree.                *)

\* the directory path a relative import names, seen from directory dir
RECURSIVE ResolveFrom(_, _)
ResolveFrom(dir, segments) ==
    IF segments = <<>> THEN dir
    ELSE IF Head(segments) = DotDot THEN ResolveFrom(Parent(dir), Tail(segments))
    ELSE IF Head(segments) \in {<<".">>, <<>>} THEN ResolveFrom(dir, Tail(segments))
    ELSE ResolveFrom(Append(dir, Head(segments)), Tail(segments))

Target(imp) == ResolveFrom(Parent(imp.file), Split(imp.path))

\* a '../' import whose target is outside the subsystem owning the importing
\* file and inside another subsystem
LeavesOwnSubsystem(imp) ==
    /\ StartsWith(imp.path, <<".", ".", SLASH>>)
    /\ \E S \in Owners(imp.file) : ~IsUnderDir(Target(imp), S)
    /\ \E T \in DOMAIN manifest : IsUnderDir(Target(imp), T)

\* an error-severity record naming the importing file
ErrorFor(file) == \E e \in Range(errors) : e.file_path \in {file, Tail(file)}

\* C10: a '../' import that leaves the importing file's own subsystem and
\* reaches into another one yields at least one error-severity record.
C10_RelativeEscapeDetected ==
    Done => \A imp \in StaticImports : LeavesOwnSubsystem(imp) => ErrorFor(imp.file)

----------------------------------------------------------------------------
(* Re-exports, in the words of the specification.                          *)

IsReexport(stmt) == stmt.kind \in Range(REEXPORT_PATTERNS) /\ stmt.path # <<>>

\* the re-export statements of the tree
ReexportEdges ==
    UNION {{[file |-> ts_files[i].path, line |-> k, path |-> ts_files[i].content[k].path] :
               k \in {j \in 1..Len(ts_files[i].content) : IsReexport(ts_files[i].content[j])}} :
           i \in 1..Len(ts_files)}

IsIndexPath(file) == Name(file) \in {INDEX_TS, INDEX_TSX} /\ ~is_test_file(file)

\* the run reported the re-export statement as a violation
ReexportReported(edge) == \E e \in Range(errors) :
    /\ e.error_type = "reexport_boundary"
    /\ e.file_path = edge.file
    /\ e.line_number = edge.line
    /\ e.import = edge.path

\* src/lib/domains/D/utils
IsDomainUtilsDir(dir) ==
    Len(dir) = 5 /\ SubSeq(dir, 1, 3) = SRC \o <<LIB, DOMAINS>> /\ dir[5] = UTILS

\* src/lib/domains/D
IsDomainDir(dir) == Len(dir) = 4 /\ SubSeq(dir, 1, 3) = SRC \o <<LIB, DOMAINS>>

\* the re-export statements of the index.ts of a subsystem
SubsystemIndexEdges ==
    {edge \in ReexportEdges : Name(edge.file) = INDEX_TS /\ HasManifest(Parent(edge.file))}

\* C11: every re-export statement of an index file whose source starts with
\* '../' is reported as a re-export violation, in the index file of a
\* subsystem and in a standalone index file alike, unless the index file is
\* that of a domain utils subsystem.
C11_UpwardReexportReported ==
    Done => \A edge \in ReexportEdges :
        (/\ IsIndexPath(edge.file)
         /\ StartsWith(edge.path, DOTDOT_SLASH)
         /\ ~IsDomainUtilsDir(Parent(edge.file)))
        => ReexportReported(edge)

\* the source is a sibling of utils in the domain of the utils directory dir
IsSameDomainSibling(dir, path) ==
    LET domain == SubSeq(dir, 2, 4)
    IN \/ /\ StartsWith(path, DOTDOT_SLASH)
          /\ Len(PathOf(path)) = 2
       \/ /\ StartsWith(path, Tilde(domain) \o <<SLASH>>)
          /\ Len(PathOf(path)) = 5
          /\ PathOf(path)[5] # UTILS

\* C12: in the index file of a subsystem src/lib/domains/D/utils a re-export
\* from a sibling of the same domain D is not reported, written
\* '~/lib/domains/D/<sibling>' or '../<sibling>'.
C12_UtilsFacadeAllowed ==
    Done => \A edge \in SubsystemIndexEdges :
        (IsDomainUtilsDir(Parent(edge.file)) /\ IsSameDomainSibling(Parent(edge.file), edge.path))
        => ~ReexportReported(edge)

\* './name' names a declared child subsystem of dir or resolves to a file or
\* a directory index inside dir
IsDeclaredOrInternal(dir, path) ==
    LET name == Drop(path, 2)
    IN \/ path \in Range(manifest[dir].subsystems)
       \/ \E suffix \in {<<".", "ts">>, <<".", "ts", "x">>,
                          <<SLASH>> \o INDEX_TS, <<SLASH>> \o INDEX_TSX} :
             \E f \in Range(ts_files) : f.path = dir \o PathOf(name \o suffix)

\* C13: a re-export './name' in the index.ts of a subsystem goes unreported
\* if and only if './name' is a declared child subsystem or name resolves to
\* an internal file or directory index.
C13_ChildReexportIff ==
    Done => \A edge \in SubsystemIndexEdges :
        StartsWith(edge.path, DOT_SLASH)
        => (~ReexportReported(edge) <=> IsDeclaredOrInternal(Parent(edge.file), edge.path))

\* C14: a '~/' re-export in the index.ts of a subsystem whose source lies
\* outside the subsystem's subtree is reported, unless the subsystem is the
\* utils of a domain and the source lies in that domain.
C14_RootRelativeOutsideReported ==
    Done => \A edge \in SubsystemIndexEdges :
        LET dir == Parent(edge.file)
        IN (/\ StartsWith(edge.path, TILDE_SLASH)
            /\ ~AtOrBeneath(edge.path, AbsPath(dir))
            /\ ~(/\ IsDomainUtilsDir(dir)
                 /\ AtOrBeneath(edge.path, Tilde(SubSeq(dir, 2, 4)))))
           => ReexportReported(edge)

\* the source names the utils of the domain directory dir, or a path beneath
IsOwnUtils(dir, path) ==
    \/ path = DOT_SLASH \o UTILS
    \/ StartsWith(path, DOT_SLASH \o UTILS \o <<SLASH>>)
    \/ AtOrBeneath(path, AbsPath(dir) \o <<SLASH>> \o UTILS)

\* the re-exports of its own utils in the index.ts of a domain
DomainIndexUtilsEdges ==
    {edge \in ReexportEdges :
        /\ Name(edge.file) = INDEX_TS
        /\ IsDomainDir(Parent(edge.file))
        /\ IsOwnUtils(Parent(edge.file), edge.path)}

\* C15: the index.ts of a domain that is a subsystem re-exporting the
\* domain's own utils is always reported, also where utils is a declared
\* child subsystem, an existing directory with an index, or a path inside the
\* domain's subtree.
C15_DomainIndexUtilsReported ==
    Done => \A edge \in DomainIndexUtilsEdges :
        HasManifest(Parent(edge.file)) => ReexportReported(edge)

\* C15 as the specification states it: for every domain index.ts
C15_EveryDomainIndex ==
    Done => \A edge \in DomainIndexUtilsEdges : ReexportReported(edge)

C15_Witness ==
    /\ Done
    /\ \E edge \in DomainIndexUtilsEdges :
         /\ HasManifest(Parent(edge.file))
         /\ IsDeclaredOrInternal(Parent(edge.file), DOT_SLASH \o UTILS)
         /\ ReexportReported(edge)

----------------------------------------------------------------------------
(* Structure of the tree, in the words of the specification.               *)

\* the records telling that subsystem S declares entry although it is inherited
RedundancyRecords(S, entry) ==
    {k \in 1..Len(errors) :
        /\ errors[k].error_type = "redundancy"
        /\ errors[k].subsystem = S
        /\ errors[k].import = entry}

\* what inheritance grants to S: the roots of its ancestor subsystems and the
\* entries of their 'allowedChildren'
InheritedBy(S) ==
    LET above == Ancestors(S) \ {SRC}
    IN {AbsPath(A) : A \in above} \cup UNION {Range(manifest[A].allowedChildren) : A \in above}

\* C16: every entry of the 'allowed' list of a subsystem S that is the root
\* of an ancestor subsystem of S, or an entry of the 'allowedChildren' of an
\* ancestor subsystem of S at any depth, produces a redundancy record for S.
C16_RedundancyComplete ==
    Done => \A S \in DOMAIN manifest :
        \A entry \in Range(manifest[S].allowed) \cap InheritedBy(S) :
            RedundancyRecords(S, entry) # {}

\* the subsystems whose file list holds the file
ListedIn(file) ==
    {i \in 1..Len(subsystems) : \E k \in 1..Len(subsystems[i].files) :
        subsystems[i].files[k].path = file}

\* how often the file list of subsystem i holds the file
TimesListed(i, file) ==
    Cardinality({k \in 1..Len(subsystems[i].files) : subsystems[i].files[k].path = file})

NearestManifestAbove(S) ==
    IF Ancestors(S) = {} THEN SRC
    ELSE CHOOSE A \in Ancestors(S) : \A B \in Ancestors(S) : Len(B) <= Len(A)

\* the run reported that subsystem S is not declared by its parent
UndeclaredRecord(S) == \E e \in Range(errors) :
    e.error_type = "subsystem_structure" /\ e.subsystem = S

\* C18: the parent recorded for a subsystem is the nearest manifest-bearing
\* directory above it, the scan root where there is none, and a subsystem
\* that the manifest of that parent does not declare is reported.
C18_ParentIsNearestManifest ==
    /\ pc # "start" => \A i \in 1..Len(subsystems) :
          subsystems[i].path # SRC
          => subsystems[i].parent_path = NearestManifestAbove(subsystems[i].path)
    /\ Done => \A S \in DOMAIN manifest :
          (/\ Ancestors(S) \ {SRC} # {}
           /\ (DOT_SLASH \o Name(S)) \notin
                  Range(manifest[NearestManifestAbove(S)].subsystems))
          => UndeclaredRecord(S)

----------------------------------------------------------------------------
(* The exit status, in the words of the specification.                     *)

\* the records of error severity the check has produced
ErrorRecords == {e \in Range(errors) \cup Range(warnings) : e.severity = "error"}

\* C19: main exits with status 0 if and only if the check produced no record
\* of error severity, and with 1 otherwise, however many warnings there are
\* and whether or not --include-warnings keeps them in the output.
C19_ExitCode ==
    [][(pc = "done" /\ pc' = "exited")
       => /\ exit_code' = (IF ErrorRecords = {} THEN 0 ELSE 1)
          /\ errors' = errors]_vars

\* a run with warnings and no error, the warnings kept in the output: status 0
C19_Witness ==
    /\ pc = "exited"
    /\ include_warnings
    /\ warnings # <<>>
    /\ errors = <<>>
    /\ exit_code = 0

----------------------------------------------------------------------------
(* The worker pool, in the words of the specification.                     *)

\* the orders in which n tasks can complete
CompletionOrders(n) == {order \in [1..n -> 1..n] : \A i, j \in 1..n : order[i] = order[j] => i = j}

\* the lists of the tasks, one after the other in the given order
InOrder(order) ==
    ConcatAll([k \in 1..Len(subsystems) |-> check_single_subsystem(subsystems[order[k]])])

\* how often a list holds a record
Count(list, record) == Cardinality({k \in 1..Len(list) : list[k] = record})

\* the same records, each as often
SameCollection(left, right) ==
    \A record \in Range(left) \cup Range(right) : Count(left, record) = Count(right, record)

\* all tasks of check_outbound_dependencies_parallel have completed
AllCompleted == pc = "outbound_wait" /\ pending = {}

----------------------------------------------------------------------------
(* Threshold overrides of the complexity check (utils/exception_handler.py). *)
(* Directories are paths below the project root, the project root is <<>>. *)

\* what every variable of the run over the import rules holds while another
\* component is exercised
RunIdle ==
    /\ manifest = <<>>
    /\ deps_content = <<>>
    /\ raised = ""
    /\ deps_files = <<>>
    /\ ts_files = <<>>
    /\ subsystems = <<>>
    /\ pending = {}
    /\ allowed_sets = <<>>
    /\ collected = <<>>
    /\ errors = <<>>
    /\ warnings = <<>>
    /\ include_warnings = FALSE
    /\ exit_code = -1

run_vars == <<manifest, deps_content, raised, deps_files, ts_files, subsystems, pending, allowed_sets,
              collected, include_warnings, exit_code>>

MaxLinesPerFile == 1   \* lines of one .architecture-exceptions file

PROJECT_ROOT == <<>>

\* the dictionary built from the lines "path: threshold # justification"
\* that _parse_exception_line accepts (a threshold that is not positive
\* raises ValueError and the line is skipped): a later line replaces an
\* earlier one of the same path
ParseExceptionLines(lines, exception_file) ==
    LET accepted == SelectSeq(lines, LAMBDA l : l.threshold > 0)
        paths == {l.path : l \in Range(accepted)}
    IN [k \in paths |->
           LET last == CHOOSE i \in 1..Len(accepted) :
                           /\ accepted[i].path = k
                           /\ \A j \in (i + 1)..Len(accepted) : accepted[j].path # k
           IN [path |-> k, threshold |-> accepted[last].threshold,
               source_file |-> exception_file]]

\* the cached dictionary of a file, or the one parsed from its lines
_load_exception_file(exception_file) ==
    IF exception_file \in DOMAIN _exception_cache THEN _exception_cache[exception_file]
    ELSE ParseExceptionLines(exception_files[exception_file], exception_file)

\* _path_matches_pattern
_path_matches_pattern(target_path, pattern) == target_path = pattern

\* the exception one file yields for target_relative: the exact entry, else
\* the longest entry _path_matches_pattern accepts
ExceptionIn(exceptions, target_relative) ==
    IF target_relative \in DOMAIN exceptions THEN <<exceptions[target_relative]>>
    ELSE LET matching == {k \in DOMAIN exceptions : _path_matches_pattern(target_relative, k)}
         IN IF matching = {} THEN <<>>
            ELSE <<exceptions[CHOOSE k \in matching : \A o \in matching : Len(o) <= Len(k)]>>

\* a walk that goes on to the project root and lets a farther file replace
\* what a closer one gave
RECURSIVE FarthestWalk(_, _)
FarthestWalk(current_path, target_relative) ==
    LET here == IF current_path \in DOMAIN exception_files
                THEN ExceptionIn(_load_exception_file(current_path), target_relative)
                ELSE <<>>
        above == IF current_path = PROJECT_ROOT THEN <<>>
                 ELSE FarthestWalk(Parent(current_path), target_relative)
    IN IF above # <<>> THEN above ELSE here

\* the loop of get_custom_threshold from current_path upward, where
\* target_relative is str(target.relative_to(project_root)): what it returns
\* (no exception: <<>>) and the files it loaded on the way
RECURSIVE ThresholdWalk(_, _)
ThresholdWalk(current_path, target_relative) ==
    LET exists == current_path \in DOMAIN exception_files
        found == IF exists
                 THEN ExceptionIn(_load_exception_file(current_path), target_relative)
                 ELSE <<>>
        loaded == IF exists THEN {current_path} ELSE {}
    IN IF found # <<>> THEN [exception |-> found, loaded |-> loaded]
       ELSE IF current_path = PROJECT_ROOT THEN [exception |-> <<>>, loaded |-> loaded]
       ELSE LET rest == ThresholdWalk(Parent(current_path), target_relative)
            IN [exception |-> rest.exception, loaded |-> loaded \cup rest.loaded]

FarthestThreshold(target_path) == FarthestWalk(target_path, PathStr(target_path))

get_custom_threshold(target_path) ==
    ThresholdWalk(target_path, PathStr(target_path)).exception

\* the directories the complexity check asks about
ThresholdDirs == {PROJECT_ROOT, SRC, SRC \o <<X>>}
ThresholdTargets == {SRC, SRC \o <<X>>}
CustomThresholds == {0, 1500, 2500}

ExceptionFileContents ==
    LET lines == {[path |-> PathStr(t), threshold |-> n] :
                      t \in ThresholdTargets, n \in CustomThresholds}
    IN UNION {[1..n -> lines] : n \in 0..MaxLinesPerFile}

InitThreshold ==
    /\ RunIdle
    /\ pc = "complexity_checks"
    /\ \E dirs \in SUBSET ThresholdDirs :
           exception_files \in [dirs -> ExceptionFileContents]
    /\ _exception_cache = <<>>
    /\ custom_threshold = <<>>
    /\ NoRuleOf6
    /\ NoCache

\* one call of _get_custom_thresholds(directory) by the complexity check
GetCustomThreshold ==
    /\ pc = "complexity_checks"
    /\ \E directory \in ThresholdTargets :
         LET walk == ThresholdWalk(directory, PathStr(directory))
         IN /\ custom_threshold' =
                   <<[target |-> directory, exception |-> get_custom_threshold(directory)]>>
            /\ _exception_cache' =
                   [f \in DOMAIN _exception_cache \cup walk.loaded |->
                       _load_exception_file(f)]
    /\ UNCHANGED <<run_vars, pc, errors, warnings, exception_files, ruleof6_files,
                   _file_exceptions, _function_exceptions, functions, cache_vars>>

SpecThreshold == InitThreshold /\ [][GetCustomThreshold]_vars

----------------------------------------------------------------------------
(* C21 *)

\* the directories from the target up to the project root whose
\* .architecture-exceptions file declares the key of the target
WalkOf(target) == {SubSeq(target, 1, n) : n \in 0..Len(target)}

DeclaredThresholds(dir, key) ==
    {l.threshold : l \in {m \in Range(exception_files[dir]) : m.path = key /\ m.threshold > 0}}

Declaring(target) ==
    {d \in WalkOf(target) \cap DOMAIN exception_files :
        DeclaredThresholds(d, PathStr(target)) # {}}

Closest(dirs) == CHOOSE d \in dirs : \A o \in dirs : Len(o) <= Len(d)

\* C21: when one or several .architecture-exceptions files between the target
\* and the project root declare the key of the target, get_custom_threshold
\* returns the declaration of the closest of them: its source file is the
\* closest declaring file and its threshold is one that file declares.
C21_ClosestWins ==
    \A call \in Range(custom_threshold) :
        Declaring(call.target) # {}
            => /\ call.exception # <<>>
               /\ call.exception[1].source_file = Closest(Declaring(call.target))
               /\ call.exception[1].threshold \in
                      DeclaredThresholds(Closest(Declaring(call.target)),
                                         PathStr(call.target))

\* two levels declare the key with different thresholds, and the call
\* returned the closer one
C21_Witness ==
    \E call \in Range(custom_threshold) :
        /\ Cardinality(Declaring(call.target)) >= 2
        /\ \E far \in Declaring(call.target) :
               /\ far # Closest(Declaring(call.target))
               /\ DeclaredThresholds(far, PathStr(call.target))
                    \cap DeclaredThresholds(Closest(Declaring(call.target)),
                                            PathStr(call.target)) = {}
        /\ call.exception # <<>>
        /\ call.exception[1].source_file = Closest(Declaring(call.target))

----------------------------------------------------------------------------
(* Rule of 6 checker: overrides and function checks                        *)
(* (utils/exception_handler.py, ruleof6/checker.py, ruleof6/rules.py).     *)

MAX_FUNCTIONS_PER_FILE == 6
MAX_FUNCTION_LINES_WARNING == 50
MAX_FUNCTION_LINES_ERROR == 100
MAX_FUNCTION_ARGS == 6

COLON == ":"
SRC_SLASH == <<"src", SLASH>>

\* RuleOf6ExceptionHandler._normalize_path for a relative path_str without
\* ".." and without links: (project_root / path_str).resolve() relative to
\* the project root
_normalize_path(path_str) == PathStr(PathOf(path_str))

\* f"{file_path}:{function_name}"
FuncKey(file_path, function_name) == file_path \o <<COLON>> \o function_name

\* dict[key] = value
Store(dict, key, value) ==
    [k \in DOMAIN dict \cup {key} |-> IF k = key THEN value ELSE dict[k]]

\* _parse_exception_file over the entries of one file, each a line
\* "path:threshold # why" (function_name <<>>) or "path:function:threshold
\* # why" whose threshold int() accepts: handler is the pair of dictionaries
RECURSIVE _parse_exception_file(_, _, _)
_parse_exception_file(handler, entries, exception_file) ==
    IF entries = <<>> THEN handler
    ELSE LET e == Head(entries)
             exception == [file_path |-> e.file_path, function_name |-> e.function_name,
                           threshold |-> e.threshold, source_file |-> exception_file]
             next == IF e.function_name # <<>>
                     THEN [handler EXCEPT !.function =
                              Store(@, FuncKey(e.file_path, e.function_name), exception)]
                     ELSE [handler EXCEPT !.file =
                              Store(@, _normalize_path(e.file_path), exception)]
         IN _parse_exception_file(next, Tail(entries), exception_file)

\* the loop of load_exceptions from current_path up to the project root
RECURSIVE load_exceptions(_, _)
load_exceptions(handler, current_path) ==
    LET parsed == IF current_path \in DOMAIN ruleof6_files
                  THEN _parse_exception_file(handler, ruleof6_files[current_path],
                                             current_path)
                  ELSE handler
    IN IF current_path = PROJECT_ROOT THEN parsed
       ELSE load_exceptions(parsed, Parent(current_path))

\* get_file_exception: <<>> for None
get_file_exception(file_path) ==
    LET normalized == _normalize_path(PathStr(file_path))
    IN IF normalized \in DOMAIN _file_exceptions THEN <<_file_exceptions[normalized]>>
       ELSE IF StartsWith(normalized, SRC_SLASH)
               /\ Drop(normalized, Len(SRC_SLASH)) \in DOMAIN _file_exceptions
       THEN <<_file_exceptions[Drop(normalized, Len(SRC_SLASH))]>>
       ELSE <<>>

\* get_function_exception: the exact key, else a key fnmatch accepts; the
\* keys of the model hold none of * ? [ so that fnmatch is equality
get_function_exception(file_path, function_name) ==
    LET func_key == FuncKey(file_path, function_name)
    IN IF func_key \in DOMAIN _function_exceptions
       THEN <<_function_exceptions[func_key]>>
       ELSE <<>>

\* _check_function_lines: each of its three branches builds its record with
\* ArchError.create_warning
_check_function_lines(func, relative_path) ==
    LET custom_rule == get_function_exception(PathStr(relative_path), func.name)
        record == ArchError("function_lines", "warning", NONE,
                            relative_path, func.line_start, "REDUCE_FUNCTION_LINES", NONE)
    IN IF custom_rule # <<>>
       THEN IF func.line_count > custom_rule[1].threshold THEN <<record>> ELSE <<>>
       ELSE IF func.line_count > MAX_FUNCTION_LINES_WARNING
            THEN IF func.line_count >= MAX_FUNCTION_LINES_ERROR
                 THEN <<record>>    \* "enforced max 100"
                 ELSE <<record>>    \* "recommended max 50"
            ELSE <<>>

_check_function_arguments(func, relative_path) ==
    IF func.arg_count > MAX_FUNCTION_ARGS
    THEN <<ArchError("function_args", "warning", NONE, relative_path, func.line_start,
                     "REDUCE_FUNCTION_ARGS", NONE)>>
    ELSE <<>>

\* _check_single_file for a file that is not empty
_check_single_file(file_path, target_path) ==
    LET relative_path == Drop(file_path, Len(target_path))
        file_exception == get_file_exception(file_path)
        file_threshold == IF file_exception # <<>> THEN file_exception[1].threshold
                          ELSE MAX_FUNCTIONS_PER_FILE
        count == IF Len(functions) > file_threshold
                 THEN <<ArchError("file_functions", "warning", NONE, relative_path, 0,
                                  "REDUCE_FUNCTIONS", NONE)>>
                 ELSE <<>>
    IN count \o ConcatAll([i \in 1..Len(functions) |->
                              _check_function_lines(functions[i], relative_path)
                              \o _check_function_arguments(functions[i], relative_path)])

\* the one file of the checked tree, src/x/a.ts, and the keys that name it
CheckedFile == SRC \o <<X, <<"a", ".", "ts">>>>
FileKeys == {PathStr(CheckedFile), PathStr(Tail(CheckedFile))}
FunctionNames == <<<<"f">>, <<"g">>>>
LineCounts == {50, 51, 100, 101}
ArgCounts == {6, 7}
FileThresholds == {0, 1}
FunctionThresholds == {60, 120}

RuleOf6Entries ==
    {[file_path |-> k, function_name |-> <<>>, threshold |-> n] :
        k \in FileKeys, n \in FileThresholds}
    \cup {[file_path |-> PathStr(Tail(CheckedFile)), function_name |-> FunctionNames[1],
           threshold |-> n] : n \in FunctionThresholds}

InitRuleOf6 ==
    /\ RunIdle
    /\ NoThresholds
    /\ NoCache
    /\ pc = "ruleof6_init"
    /\ \E dirs \in SUBSET {PROJECT_ROOT, SRC} :
           ruleof6_files \in [dirs -> UNION {[1..n -> RuleOf6Entries] : n \in 0..MaxLinesPerFile}]
    /\ \E n \in 1..Len(FunctionNames) :
           functions \in {fs \in [1..n -> [name : Range(FunctionNames), line_count : LineCounts,
                                           arg_count : ArgCounts, line_start : 1..n]] :
                             \A i \in 1..n : fs[i].name = FunctionNames[i] /\ fs[i].line_start = i}
    /\ _file_exceptions = <<>>
    /\ _function_exceptions = <<>>

\* RuleOf6Checker.__init__: the handler loads every .ruleof6-exceptions file
\* from the target path src up to the project root
LoadExceptions ==
    /\ pc = "ruleof6_init"
    /\ LET handler == load_exceptions([file |-> <<>>, function |-> <<>>], SRC)
       IN /\ _file_exceptions' = handler.file
          /\ _function_exceptions' = handler.function
    /\ pc' = "ruleof6_checks"
    /\ UNCHANGED <<run_vars, errors, warnings, exception_files, _exception_cache,
                   custom_threshold, ruleof6_files, functions, cache_vars>>

\* RuleOf6Checker.run_all_checks: check_file_functions over the one file and
\* results.add_error for each record it returns
CheckFileFunctions ==
    /\ pc = "ruleof6_checks"
    /\ LET found == _check_single_file(CheckedFile, SRC)
       IN /\ errors' = errors \o AddedErrors(found)
          /\ warnings' = warnings \o AddedWarnings(found)
    /\ pc' = "ruleof6_done"
    /\ UNCHANGED <<run_vars, outside_run>>

NextRuleOf6 == LoadExceptions \/ CheckFileFunctions

SpecRuleOf6 == InitRuleOf6 /\ [][NextRuleOf6]_vars

----------------------------------------------------------------------------
(* C22 *)

\* the thresholds the .ruleof6-exceptions file of dir declares for a file
\* key (function_name <<>>) or a file:function key
RuleOf6Declared(dir, file_path, function_name) ==
    {e.threshold : e \in {d \in Range(ruleof6_files[dir]) :
                            d.file_path = file_path /\ d.function_name = function_name}}

RuleOf6Declaring(file_path, function_name) ==
    {d \in DOMAIN ruleof6_files : RuleOf6Declared(d, file_path, function_name) # {}}

\* C22: once the .ruleof6-exceptions files between the target path and the
\* project root are loaded, the threshold get_file_exception gives for the
\* file key, and the one get_function_exception gives for the file:function
\* key, is one the closest declaring file declares for that key.
C22_ClosestOverrideApplied ==
    pc \in {"ruleof6_checks", "ruleof6_done"}
        => /\ LET declaring == RuleOf6Declaring(PathStr(CheckedFile), <<>>)
              IN declaring # {}
                    => /\ get_file_exception(CheckedFile) # <<>>
                       /\ get_file_exception(CheckedFile)[1].threshold \in
                              RuleOf6Declared(Closest(declaring), PathStr(CheckedFile), <<>>)
           /\ LET key == PathStr(Tail(CheckedFile))
                  declaring == RuleOf6Declaring(key, FunctionNames[1])
              IN declaring # {}
                    => /\ get_function_exception(key, FunctionNames[1]) # <<>>
                       /\ get_function_exception(key, FunctionNames[1])[1].threshold \in
                              RuleOf6Declared(Closest(declaring), key, FunctionNames[1])

----------------------------------------------------------------------------
(* C24 *)

\* the function-lines records of the function that starts at line_start
FunctionLinesRecords(list, line_start) ==
    {i \in 1..Len(list) :
        list[i].error_type = "function_lines" /\ list[i].line_number = line_start}

\* C24: when the Rule of 6 run is over, a function without a function-level
\* override has no function-lines record if it has at most 50 lines,
\* exactly one record, a warning, if it has more than 50 and at most 100
\* lines, and exactly one record, an error, if it has more than 100 lines.
C24_FunctionLengthBands ==
    pc = "ruleof6_done"
        => \A i \in 1..Len(functions) :
               LET func == functions[i]
                   as_error == Cardinality(FunctionLinesRecords(errors, func.line_start))
                   as_warning == Cardinality(FunctionLinesRecords(warnings, func.line_start))
               IN get_function_exception(PathStr(Tail(CheckedFile)), func.name) = <<>>
                     => /\ func.line_count <= 50 => as_error = 0 /\ as_warning = 0
                        /\ (func.line_count > 50 /\ func.line_count <= 100)
                              => as_error = 0 /\ as_warning = 1
                        /\ func.line_count > 100 => as_error = 1 /\ as_warning = 0

----------------------------------------------------------------------------
(* C23 *)

\* C23: whatever the dependencies.json files hold (an object, text that is
\* no JSON, bytes that cannot be decoded, JSON that is no object, a file
\* that cannot be opened), no exception ends the run, and once discovery is
\* over every manifest has its subsystem, with an empty mapping as its
\* dependencies when the file did not hold an object.
C23_MalformedManifestEmpty ==
    /\ raised = ""
    /\ pc # "start"
          => /\ Len(subsystems) = Len(deps_files)
             /\ \A i \in 1..Len(subsystems) :
                    deps_content[subsystems[i].path] # "object"
                        => subsystems[i].dependencies = EMPTY_DICT

----------------------------------------------------------------------------
(* C25 *)

\* the shared objects of the domain that holds directory S: the path
\* ~/lib/domains/<D>/_objects
DomainObjects(S) == Tilde(SubSeq(Tail(S), 1, 3) \o <<OBJECTS>>)

\* C25: a file owned by a subsystem S that lies under src/lib/domains/D/ and
\* imports ~/lib/domains/D/_objects, or a path beneath it, gets no
\* undeclared-outbound-dependency error, whether or not a declared or
\* inherited entry covers that path.
C25_SameDomainObjectsAllowed ==
    Done => \A imp \in StaticImports : \A S \in Owners(imp.file) :
        (/\ IsUnderDir(S, DOMAINS_PATH) /\ Len(S) > Len(DOMAINS_PATH)
         /\ AtOrBeneath(imp.path, DomainObjects(S)))
            => ~OutboundError(imp.file, imp.path)

----------------------------------------------------------------------------
(* The shared read-through cache under the worker pool                     *)
(* (utils/file_utils.py, FileCache). The pool threads call get_file_info   *)
(* and load_dependencies_json on one FileCache without a lock; a call is   *)
(* the membership test, the read of the entry, the load from disk and the  *)
(* store, each one step. The tree on disk does not change during a run.    *)

CacheWorkers == 2   \* threads calling the cache at once

CacheManifest == SRC \o <<X>>
CacheFile == Append(CacheManifest, TS(<<"f">>))

NoCall == [pc |-> "idle", op |-> "", path |-> <<>>, value |-> <<>>, result |-> <<>>]

\* the cache a call works on
CacheOf(op) == IF op = "get_file_info" THEN file_cache ELSE dependency_cache

\* the file of the tree at a path
FileAt(path) == CHOOSE f \in Range(ts_files) : f.path = path

\* self.file_cache[file_path] = file_info / self.dependency_cache[deps_file] = deps
PutEntry(cache, path, value) ==
    [p \in DOMAIN cache \cup {path} |-> IF p = path THEN value ELSE cache[p]]

InitCache ==
    /\ pc = "cache_calls"
    /\ deps_content \in [{CacheManifest} -> {"object", "invalid_json", "unreadable"}]
    /\ \E decl \in Declarations({CacheManifest}, {"allowed"}, {Tilde(<<V>>)}) :
         /\ decl # {} => deps_content[CacheManifest] = "object"
         /\ manifest = [d \in {CacheManifest} |->
                           IF deps_content[d] = "object" THEN ManifestOf(d, "", decl)
                           ELSE EMPTY_DICT]
    /\ deps_files = <<CacheManifest>>
    /\ \E content \in {<<>>, <<Stmt("import_from", Tilde(<<V>>))>>} :
         ts_files = <<[path |-> CacheFile, content |-> content]>>
    /\ raised = ""
    /\ subsystems = <<>>
    /\ pending = {}
    /\ allowed_sets = <<>>
    /\ collected = <<>>
    /\ errors = <<>>
    /\ warnings = <<>>
    /\ include_warnings = FALSE
    /\ exit_code = -1
    /\ NoThresholds
    /\ NoRuleOf6
    /\ file_cache = <<>>
    /\ dependency_cache = <<>>
    /\ calls = [w \in 1..CacheWorkers |-> NoCall]
    /\ added = <<>>

CacheStep(w, call) ==
    /\ calls' = [calls EXCEPT ![w] = call]
    /\ UNCHANGED <<run_vars, pc, errors, warnings, exception_files, _exception_cache,
                   custom_threshold, ruleof6_files, _file_exceptions, _function_exceptions,
                   functions, added>>

\* a worker enters get_file_info(file_path) or load_dependencies_json(deps_file)
CacheCall(w) ==
    /\ calls[w].pc = "idle"
    /\ \E op \in {"get_file_info", "load_dependencies_json"} :
         CacheStep(w, [NoCall EXCEPT !.pc = "lookup", !.op = op,
                              !.path = IF op = "get_file_info" THEN CacheFile
                                       ELSE CacheManifest])
    /\ UNCHANGED <<file_cache, dependency_cache>>

\* if file_path in self.file_cache / if deps_file in self.dependency_cache
CacheLookup(w) ==
    /\ calls[w].pc = "lookup"
    /\ CacheStep(w, [calls[w] EXCEPT !.pc = IF calls[w].path \in DOMAIN CacheOf(calls[w].op)
                                            THEN "hit" ELSE "miss"])
    /\ UNCHANGED <<file_cache, dependency_cache>>

\* return self.file_cache[file_path] / return self.dependency_cache[deps_file]
CacheRead(w) ==
    /\ calls[w].pc = "hit"
    /\ CacheStep(w, [calls[w] EXCEPT !.pc = "returned",
                                     !.result = <<CacheOf(calls[w].op)[calls[w].path]>>])
    /\ UNCHANGED <<file_cache, dependency_cache>>

\* the miss: get_file_content and extract_imports, or open and json.load;
\* a manifest that cannot be opened or parsed is answered with {} and is
\* not stored
CacheLoad(w) ==
    /\ calls[w].pc = "miss"
    /\ LET path == calls[w].path
       IN IF calls[w].op = "get_file_info"
          THEN CacheStep(w, [calls[w] EXCEPT !.pc = "store",
                                             !.value = <<get_file_info(FileAt(path))>>])
          ELSE IF deps_content[path] \in {"invalid_json", "unreadable"}
               THEN CacheStep(w, [calls[w] EXCEPT !.pc = "returned",
                                                  !.result = <<EMPTY_DICT>>])
               ELSE CacheStep(w, [calls[w] EXCEPT !.pc = "store",
                                                  !.value = <<manifest[path]>>])
    /\ UNCHANGED <<file_cache, dependency_cache>>

\* the store of what was loaded, and the return of it
CacheStore(w) ==
    /\ calls[w].pc = "store"
    /\ LET call == calls[w]
       IN /\ IF call.op = "get_file_info"
             THEN /\ file_cache' = PutEntry(file_cache, call.path, call.value[1])
                  /\ UNCHANGED dependency_cache
             ELSE /\ dependency_cache' = PutEntry(dependency_cache, call.path, call.value[1])
                  /\ UNCHANGED file_cache
          /\ CacheStep(w, [call EXCEPT !.pc = "returned", !.result = call.value])

\* the caller takes the result; the worker is free for its next call
CacheReturn(w) ==
    /\ calls[w].pc = "returned"
    /\ CacheStep(w, NoCall)
    /\ UNCHANGED <<file_cache, dependency_cache>>

NextCache ==
    \E w \in 1..CacheWorkers :
        \/ CacheCall(w)
        \/ CacheLookup(w)
        \/ CacheRead(w)
        \/ CacheLoad(w)
        \/ CacheStore(w)
        \/ CacheReturn(w)

SpecCache == InitCache /\ [][NextCache]_vars

----------------------------------------------------------------------------
(* C26 *)

\* what the content on disk determines for a call
DeterminedByContent(op, path) ==
    IF op = "get_file_info"
    THEN [path |-> path, content |-> FileAt(path).content,
          imports |-> extract_import_paths(FileAt(path).content)]
    ELSE IF deps_content[path] = "object" THEN manifest[path] ELSE EMPTY_DICT

ReturnsDetermined ==
    \A w \in DOMAIN calls :
        calls[w].pc = "returned"
            => calls[w].result = <<DeterminedByContent(calls[w].op, calls[w].path)>>

EntriesKept ==
    /\ \A p \in DOMAIN file_cache :
           p \in DOMAIN file_cache' /\ file_cache'[p] = file_cache[p]
    /\ \A p \in DOMAIN dependency_cache :
           p \in DOMAIN dependency_cache' /\ dependency_cache'[p] = dependency_cache[p]

\* C26: under every interleaving of get_file_info / load_dependencies_json
\* calls of parallel workers for the same path, each call returns the value
\* the file's content determines, and an entry of the cache, once stored, is
\* never replaced by a different value.
C26_CacheSafeUnderWorkers == []ReturnsDetermined /\ [][EntriesKept]_vars

\* two workers missed on the same path, both loaded and stored, the second
\* store over the entry of the first
C26_Witness ==
    /\ DOMAIN calls = 1..CacheWorkers
    /\ calls[1].pc = "returned" /\ calls[2].pc = "returned"
    /\ calls[1].op = calls[2].op /\ calls[1].path = calls[2].path
    /\ calls[1].value # <<>> /\ calls[2].value # <<>>
    /\ calls[1].path \in DOMAIN CacheOf(calls[1].op)

----------------------------------------------------------------------------
(* C27 *)

\* a record of check_app_isolation for an import of a file (no manifest of
\* the tree declares a page, so check_page_isolation adds none)
AppIsolationError(file, path) == \E e \in Range(errors) :
    e.recommendation_type = "MOVE_SHARED_CODE" /\ e.file_path = file /\ e.import = path

\* C27: check_app_isolation reports an error for an import in file F if and
\* only if F lies outside the src/app directory and the import path is
\* ~/app or a path beneath ~/app/, bounded at the path segment; imports of
\* other root-relative paths produce no app-isolation error.
C27_AppIsolationSegmentBounded ==
    Done => \A imp \in StaticImports :
        AppIsolationError(imp.file, imp.path)
            <=> (/\ ~IsUnderDir(imp.file, APP_DIR)
                 /\ AtOrBeneath(imp.path, Tilde(<<APP>>)))

----------------------------------------------------------------------------
(* CheckResults on its own (models.py): records handed to add_error one    *)
(* after the other, as the run and the Rule of 6 checker do.               *)

MaxAdded == 4   \* calls of add_error on one CheckResults

\* an add_error that files every record under errors
AppendToErrors(results, error) == [results EXCEPT !.errors = Append(@, error)]

\* CheckResults.add_error
add_error(results, error) ==
    IF error.severity = "error"
    THEN [results EXCEPT !.errors = Append(@, error)]
    ELSE [results EXCEPT !.warnings = Append(@, error)]

\* the records a check can create: ArchError.create_error and create_warning
CreatedRecords ==
    {ArchError("complexity", severity, SRC, NONE, 0, recommendation_type, <<>>) :
        severity \in {"error", "warning"},
        recommendation_type \in {"CREATE_README", "MOVE_SHARED_CODE"}}

InitResults ==
    /\ RunIdle
    /\ NoThresholds
    /\ NoRuleOf6
    /\ pc = "results"
    /\ errors = <<>>
    /\ warnings = <<>>
    /\ file_cache = <<>>
    /\ dependency_cache = <<>>
    /\ calls = <<>>
    /\ added = <<>>

\* results.add_error(error)
AddError ==
    /\ pc = "results"
    /\ Len(added) < MaxAdded
    /\ \E error \in CreatedRecords :
         LET results == add_error([errors |-> errors, warnings |-> warnings], error)
         IN /\ errors' = results.errors
            /\ warnings' = results.warnings
            /\ added' = Append(added, error)
    /\ UNCHANGED <<run_vars, pc, exception_files, _exception_cache, custom_threshold,
                   ruleof6_files, _file_exceptions, _function_exceptions, functions,
                   file_cache, dependency_cache, calls>>

SpecResults == InitResults /\ [][AddError]_vars

----------------------------------------------------------------------------
(* C28 *)

\* C28: after any sequence of add_error calls on a CheckResults, every record
\* in errors has severity ERROR, every record in warnings has severity
\* WARNING, each added record is in exactly one of the two lists in insertion
\* order, and has_errors() is true exactly when some record of severity ERROR
\* was added.
C28_AddErrorPartitions ==
    pc = "results" =>
        /\ \A i \in 1..Len(errors) : errors[i].severity = "error"
        /\ \A i \in 1..Len(warnings) : warnings[i].severity = "warning"
        /\ errors = SelectSeq(added, LAMBDA e : e.severity = "error")
        /\ warnings = SelectSeq(added, LAMBDA e : e.severity = "warning")
        /\ Len(errors) + Len(warnings) = Len(added)
        /\ has_errors([errors |-> errors, warnings |-> warnings])
               <=> \E i \in 1..Len(added) : added[i].severity = "error"

\* errors and warnings were added, interleaved, and both lists are filled
C28_Witness ==
    /\ pc = "results"
    /\ Len(added) = MaxAdded
    /\ added[1].severity = "warning" /\ added[2].severity = "error"
    /\ added[3].severity = "warning" /\ added[4].severity = "error"
    /\ Len(errors) = 2 /\ Len(warnings) = 2

----------------------------------------------------------------------------
(* C29 *)

\* the domains of the tree
DomainNames == {P, PQ, Q}

\* C29: the domain-utils re-export exception never crosses domains: for all
\* distinct domain names D and E, a re-export in the index of
\* src/lib/domains/D/utils whose source is ~/lib/domains/E or a path beneath
\* it is reported as a re-export violation.
C29_UtilsExceptionStaysInDomain ==
    Done => \A edge \in SubsystemIndexEdges :
        LET dir == Parent(edge.file)
        IN (/\ IsDomainUtilsDir(dir)
            /\ \E E \in DomainNames \ {dir[4]} :
                   AtOrBeneath(edge.path, Tilde(<<LIB, DOMAINS, E>>)))
           => ReexportReported(edge)

----------------------------------------------------------------------------
(* C30 *)

\* C30: in the boundary check a file is exempted as internal to subsystem S
\* only when it is located inside S's directory: every importing file outside
\* S's directory, also one in a sibling directory whose path merely contains
\* S's path as a string, is examined and its imports into S's internal files
\* are reported (S neither router nor api, the file no index file, neither
\* the same-domain nor the domain-utils permission applying).
C30_OnlyInsideIsInternal ==
    Done => \A S \in DOMAIN manifest : \A imp \in StaticImports :
        (/\ ~IsUnderDir(imp.file, S)
         /\ ReachesPast(S, imp.path)
         /\ manifest[S].type \notin {"router", "api"}
         /\ ~IsIndexFile(imp.file)
         /\ ~IsSameDomainImport(imp.file, imp.path)
         /\ ~IsDomainUtilsPath(imp.path))
            => BoundaryViolationOf(S, imp.file, imp.path)

============================================================================
